---- MODULE Spec2Model ----
(***************************************************************************)
(* BIOS asset pipeline of lib/bios_manager.py: download, verify, cache and *)
(* install.  The cache directory and the SD card are maps from paths to    *)
(* files; a file's data is the sequence of CHUNK_SIZE chunks it holds.     *)
(* The network and the filesystem are the environment: every request and   *)
(* every copy draws its outcome from the outcomes the code distinguishes.  *)
(***************************************************************************)
EXTENDS Integers, Sequences, FiniteSets, TLC

\* Bounds of the model.
\* Number of environment faults (anything but a genuine, complete transfer
\* or copy) injected in one behaviour.
MaxFaults == 1
\* Number of CHUNK_SIZE chunks in a response body.
BodyChunks == 2
\* Number of API calls in one behaviour.
MaxCalls == 2

\* BIOS_FILES with a fault: the same entry is listed in every place.
BIOS_FILES_repeated ==
  [i \in 1..15 |->
     [filename |-> "scph1001.bin", system |-> "PlayStation",
      md5 |-> "924e392ed05558ffdb115408c263dccf",
      required |-> TRUE, subdir |-> "", extra_copies |-> <<>>]]

\* The catalog, as written in the source.
BIOS_FILES ==
  <<
    [filename |-> "scph1001.bin", system |-> "PlayStation",
     md5 |-> "924e392ed05558ffdb115408c263dccf",
     required |-> TRUE, subdir |-> "", extra_copies |-> <<>>],
    [filename |-> "scph5500.bin", system |-> "PlayStation",
     md5 |-> "8dd7d5296a650fac7319bce665a6a53c",
     required |-> TRUE, subdir |-> "", extra_copies |-> <<>>],
    [filename |-> "scph5501.bin", system |-> "PlayStation",
     md5 |-> "490f666e1afb15b7362b406ed1cea246",
     required |-> TRUE, subdir |-> "", extra_copies |-> <<>>],
    [filename |-> "scph5502.bin", system |-> "PlayStation",
     md5 |-> "32736f17079d0b2b7024407c39bd3050",
     required |-> TRUE, subdir |-> "", extra_copies |-> <<>>],
    [filename |-> "neogeo.zip", system |-> "Neo Geo",
     md5 |-> "",
     required |-> TRUE, subdir |-> "", extra_copies |-> <<"Roms/NEOGEO/neogeo.zip">>],
    [filename |-> "bios_CD_U.bin", system |-> "Sega CD",
     md5 |-> "2efd74e3232ff260e371b99f84024f7f",
     required |-> TRUE, subdir |-> "", extra_copies |-> <<>>],
    [filename |-> "bios_CD_E.bin", system |-> "Sega CD",
     md5 |-> "e66fa1dc5820d254611fdcdba0662372",
     required |-> TRUE, subdir |-> "", extra_copies |-> <<>>],
    [filename |-> "bios_CD_J.bin", system |-> "Sega CD",
     md5 |-> "278a9397d192149e84e820ac621a8edd",
     required |-> TRUE, subdir |-> "", extra_copies |-> <<>>],
    [filename |-> "syscard3.pce", system |-> "TurboGrafx-CD",
     md5 |-> "38179df8f4ac870017db21ebcbf53114",
     required |-> TRUE, subdir |-> "", extra_copies |-> <<>>],
    [filename |-> "mpr-17933.bin", system |-> "Saturn",
     md5 |-> "3240872c70984b6cbfda1586cab68dbe",
     required |-> TRUE, subdir |-> "", extra_copies |-> <<>>],
    [filename |-> "gba_bios.bin", system |-> "GBA",
     md5 |-> "a860e8c0b6d573d191e4ec7db1b1e4f6",
     required |-> FALSE, subdir |-> "", extra_copies |-> <<>>],
    [filename |-> "gb_bios.bin", system |-> "GB",
     md5 |-> "32fbbd84168d3482956eb3c5051637f5",
     required |-> FALSE, subdir |-> "", extra_copies |-> <<>>],
    [filename |-> "gbc_bios.bin", system |-> "GBC",
     md5 |-> "dbfce9db9deaa2567f6a84fde55f9680",
     required |-> FALSE, subdir |-> "", extra_copies |-> <<>>],
    [filename |-> "neocd_f.rom", system |-> "Neo Geo CD",
     md5 |-> "",
     required |-> FALSE, subdir |-> "neocd", extra_copies |-> <<>>],
    [filename |-> "000-lo.lo", system |-> "Neo Geo CD",
     md5 |-> "",
     required |-> FALSE, subdir |-> "neocd", extra_copies |-> <<>>]
  >>

\* The catalog entries the model runs the batches over (indices into
\* BIOS_FILES, in catalog order): a required entry with a checksum, the
\* required entry with an extra copy and no checksum, an optional entry in a
\* subdirectory with no checksum.
ModelEntries == <<1, 5, 14>>

Catalog == [i \in 1..Len(ModelEntries) |-> BIOS_FILES[ModelEntries[i]]]

\* ---------------------------------------------------------------- files

NoFile == [exists |-> FALSE, data |-> <<>>]

File(d) == [exists |-> TRUE, data |-> d]

\* The bytes upstream holds for an entry: BodyChunks chunks of its own data.
Genuine(entry) == [k \in 1..BodyChunks |-> entry.filename]

\* A body of the same length with other bytes.
Junk == [k \in 1..BodyChunks |-> "junk"]

_cache_path_for(bios_entry) ==
  IF bios_entry.subdir # ""
    THEN <<bios_entry.subdir, bios_entry.filename>>
    ELSE <<bios_entry.filename>>

\* Primary destination of an entry on the SD card: BIOS/[subdir/]filename.
dest_path_for(entry) ==
  IF entry.subdir # ""
    THEN <<"BIOS", entry.subdir, entry.filename>>
    ELSE <<"BIOS", entry.filename>>

\* Destination of one extra copy: sd_mount / extra.
extra_dest(extra) == <<extra>>

CachePaths == {_cache_path_for(Catalog[i]) : i \in 1..Len(Catalog)}

SdPaths ==
  {dest_path_for(Catalog[i]) : i \in 1..Len(Catalog)}
  \cup UNION {{extra_dest(Catalog[i].extra_copies[j]) :
                 j \in 1..Len(Catalog[i].extra_copies)} : i \in 1..Len(Catalog)}

\* ------------------------------------------------------------- verifier

LowerChar(c) ==
  CASE c = "A" -> "a" [] c = "B" -> "b" [] c = "C" -> "c" [] c = "D" -> "d"
    [] c = "E" -> "e" [] c = "F" -> "f" [] c = "G" -> "g" [] c = "H" -> "h"
    [] c = "I" -> "i" [] c = "J" -> "j" [] c = "K" -> "k" [] c = "L" -> "l"
    [] c = "M" -> "m" [] c = "N" -> "n" [] c = "O" -> "o" [] c = "P" -> "p"
    [] c = "Q" -> "q" [] c = "R" -> "r" [] c = "S" -> "s" [] c = "T" -> "t"
    [] c = "U" -> "u" [] c = "V" -> "v" [] c = "W" -> "w" [] c = "X" -> "x"
    [] c = "Y" -> "y" [] c = "Z" -> "z" [] OTHER -> c

RECURSIVE LowerRec(_)
LowerRec(s) ==
  IF Len(s) = 0 THEN ""
  ELSE LowerChar(SubSeq(s, 1, 1)) \o LowerRec(SubSeq(s, 2, Len(s)))

\* str.lower() of the catalog's checksums, computed once.
LowerMemo ==
  [s \in {BIOS_FILES[i].md5 : i \in 1..Len(BIOS_FILES)} |-> LowerRec(s)]

\* lower with a fault: the expected checksum is compared as it is written.
lower_unchanged(s) == s

\* str.lower()
lower(s) == IF s \in DOMAIN LowerMemo THEN LowerMemo[s] ELSE LowerRec(s)

\* hashlib.md5 of a file's bytes, as lowercase hex.  The digest of an
\* entry's genuine bytes is the checksum the catalog records for it; any
\* other data hashes to some other digest (MD5 taken as collision-free).
hexdigest(data) ==
  IF \E i \in 1..Len(BIOS_FILES) :
       BIOS_FILES[i].md5 # "" /\ data = Genuine(BIOS_FILES[i])
    THEN LET i == CHOOSE i \in 1..Len(BIOS_FILES) :
                    BIOS_FILES[i].md5 # "" /\ data = Genuine(BIOS_FILES[i])
         IN BIOS_FILES[i].md5
    ELSE IF data = <<>> THEN "d41d8cd98f00b204e9800998ecf8427e"
    ELSE "00000000000000000000000000000000"

\* verify_md5 with a fault: an empty expected checksum is compared like any
\* other.
verify_md5_strict(file, expected_md5) ==
  hexdigest(file.data) = lower(expected_md5)

\* verify_md5 with a fault: the digest is never compared.
verify_md5_always(file, expected_md5) == TRUE

verify_md5(file, expected_md5) ==
  IF expected_md5 = "" THEN TRUE
  ELSE hexdigest(file.data) = lower(expected_md5)

\* -------------------------------------------------------------- fetcher

\* The directory dest.parent of an entry's cache path.
CacheParent(entry) ==
  IF entry.subdir # "" THEN "cache_dir/" \o entry.subdir ELSE "cache_dir"

\* The directories the code creates outside any try block.
Dirs == {"cache_dir", "sd_mount/BIOS"}
        \cup {CacheParent(Catalog[i]) : i \in 1..Len(Catalog)}

\* dest.parent.mkdir(parents=True, exist_ok=True) raises when the directory
\* or cache_dir above it cannot be created.
MkdirFails(entry, blocked) ==
  "cache_dir" \in blocked \/ CacheParent(entry) \in blocked

\* What the environment can do to one download_bios_file call.  written is
\* the number of chunks written to dest before the failure; -1 says the
\* failure came before dest was opened (urlopen raised, or open did).
DownloadOutcomes(entry, blocked) ==
  IF MkdirFails(entry, blocked)
    THEN {[kind |-> "mkdir_error", body |-> <<>>, written |-> -1]}
    ELSE {[kind |-> "complete", body |-> b, written |-> Len(b)] :
            b \in {Genuine(entry), Junk}}
         \cup {[kind |-> "http_error", body |-> <<>>, written |-> -1]}
         \cup {[kind |-> "url_error", body |-> <<>>, written |-> -1]}
         \cup {[kind |-> k, body |-> Genuine(entry), written |-> w] :
                 k \in {"timeout", "os_error"}, w \in -1..BodyChunks}

\* The outcomes that are not transient faults: the genuine body arrives
\* whole, or the directory is one that cannot be created.
Nominal(entry, o) ==
  \/ o.kind = "complete" /\ o.body = Genuine(entry)
  \/ o.kind = "mkdir_error"

\* WrittenFile with a fault: a body that did not arrive whole is removed.
WrittenFileDropsPartial(old, o) ==
  IF o.written < 0 THEN old
  ELSE IF o.kind # "complete" THEN NoFile
  ELSE File(SubSeq(o.body, 1, o.written))

\* WrittenFile with a fault: dest is opened for writing before the request
\* is made, so a failure before the first chunk leaves an empty file.
WrittenFileOpensFirst(old, o) ==
  IF o.written < 0 THEN File(<<>>) ELSE File(SubSeq(o.body, 1, o.written))

\* dest after the try block of download_bios_file: untouched when the
\* failure came before open(dest, "wb"), else the chunks written so far.
WrittenFile(old, o) ==
  IF o.written < 0 THEN old ELSE File(SubSeq(o.body, 1, o.written))

\* Unlink with a fault: the file that failed verification stays in the cache.
UnlinkKeeps(c, dest) == c

\* Unlink with a fault: the whole cache directory is cleared.
UnlinkEverything(c, dest) == [p \in DOMAIN c |-> NoFile]

\* dest.unlink(missing_ok=True)
Unlink(c, dest) == [c EXCEPT ![dest] = NoFile]

\* download_bios_file(bios_entry, cache_dir): the value returned, the cache
\* afterwards, and whether urlopen was called.  raised says the call ended
\* in an exception instead of returning.
download_bios_file(bios_entry, c, o) ==
  LET dest == _cache_path_for(bios_entry)
      filename == bios_entry.filename
      written == [c EXCEPT ![dest] = WrittenFile(c[dest], o)]
      fail(msg, c2) == [raised |-> FALSE, ok |-> FALSE, msg |-> msg,
                        cache |-> c2, requested |-> TRUE]
  IN CASE o.kind = "mkdir_error" ->
            [raised |-> TRUE, ok |-> FALSE, msg |-> "OSError",
             cache |-> c, requested |-> FALSE]
       [] o.kind = "http_error" ->
            fail("HTTP 404 downloading " \o filename \o ": Not Found",
                 written)
       [] o.kind = "url_error" ->
            fail("Network error downloading " \o filename \o ": unreachable",
                 written)
       [] o.kind = "timeout" ->
            fail("Timeout downloading " \o filename, written)
       [] o.kind = "os_error" ->
            fail("File error saving " \o filename \o ": OSError", written)
       [] OTHER ->
            IF ~verify_md5(written[dest], bios_entry.md5)
              THEN fail("MD5 verification failed for " \o filename,
                        Unlink(written, dest))
              ELSE [raised |-> FALSE, ok |-> TRUE,
                    msg |-> "Downloaded " \o filename,
                    cache |-> written, requested |-> TRUE]

\* The Content-Length header of a response: absent, or the number of chunks
\* of a whole body (a chunk is the unit sizes are counted in).
ContentLengths ==
  {[present |-> FALSE, value |-> 0], [present |-> TRUE, value |-> BodyChunks]}

\* int(response.headers.get("Content-Length", 0))
headers_get(content_length, default) ==
  IF content_length.present THEN content_length.value ELSE default

\* PerFileProgress with a fault: the callback is invoked once, after the
\* last chunk, instead of once per chunk.
PerFileProgressAtEnd(bios_entry, o, progress_cb, content_length) ==
  IF progress_cb /\ o.written > 0
    THEN <<<<bios_entry.filename, o.written,
             headers_get(content_length, 0)>>>>
    ELSE <<>>

\* The calls progress_cb(filename, downloaded, total) one download_bios_file
\* call makes: one after each fh.write(chunk), downloaded being the size of
\* what has been written so far; none when progress_cb is None.
PerFileProgress(bios_entry, o, progress_cb, content_length) ==
  IF progress_cb /\ o.written > 0
    THEN [k \in 1..o.written |->
            <<bios_entry.filename, Len(SubSeq(o.body, 1, k)),
              headers_get(content_length, 0)>>]
    ELSE <<>>

\* ForwardedProgressCb with a fault: the batch hands a per-file callback on.
ForwardedProgressCbGiven == TRUE

\* download_all_bios calls download_bios_file(entry, cache_dir): the third
\* parameter keeps its default None, so no per-file callback is passed.
ForwardedProgressCb == FALSE

\* Files with a fault: the required_only flag is ignored.
FilesUnfiltered(required_only) == Catalog

\* [e for e in BIOS_FILES if not required_only or e["required"]]
Files(required_only) ==
  SelectSeq(Catalog, LAMBDA e : ~required_only \/ e.required)

\* ---------------------------------------------------------------- state

VARIABLES
  cache,       \* cache path -> file
  sd,          \* SD card path -> file
  blocked,     \* directories that do not exist and cannot be created
  pc,          \* "idle", or the batch call in progress
  call,        \* the locals of the call in progress
  result,      \* what the last call returned, or that it raised
  requests,    \* filenames urlopen was called for, this call
  progress,    \* progress_cb invocations of this call: <<idx, total, text>>
  cache0,      \* the cache when this call started
  sd0,         \* the SD card when this call started
  prev,        \* what the call before this one returned, if a batch call
  calls,       \* API calls made so far
  faults       \* faults injected so far

vars == <<cache, sd, blocked, pc, call, result, requests,
          progress, cache0, sd0, prev, calls, faults>>

NoCall == [op |-> "none"]

NoResult == [op |-> "none", status |-> "none"]

\* A fresh cache directory and an SD card with no BIOS files.  At most one
\* of the directories the code creates outside a try block is one that
\* cannot be created (a file of that name is in the way, or its parent is
\* read-only); that stays so for the whole behaviour.
Init ==
  /\ cache = [p \in CachePaths |-> NoFile]
  /\ sd = [p \in SdPaths |-> NoFile]
  /\ blocked \in {{}} \cup {{d} : d \in Dirs}
  /\ pc = "idle"
  /\ call = NoCall
  /\ result = NoResult
  /\ requests = <<>>
  /\ progress = <<>>
  /\ cache0 = cache
  /\ sd0 = sd
  /\ prev = NoResult
  /\ calls = 0
  /\ faults = 0

Range(seq) == {seq[k] : k \in DOMAIN seq}

\* What is remembered of the call before: a batch call's return value, with
\* the filenames of its failed list in place of the messages.
Summary(r) ==
  IF r.op \in {"download_all_bios", "install_bios_to_sd"}
       /\ r.status = "returned"
    THEN [op |-> r.op, status |-> r.status, skip_cached |-> r.skip_cached,
          required_only |-> r.required_only, overall |-> r.overall,
          succeeded |-> r.succeeded,
          failed |-> SelectSeq([k \in DOMAIN r.log |-> r.log[k].filename],
                               LAMBDA f : f \notin Range(r.succeeded))]
    ELSE NoResult

\* A fault may be injected while the budget lasts.
Allowed(nominal) == nominal \/ faults < MaxFaults

Charge(nominal) == IF nominal THEN faults ELSE faults + 1

\* Entering any API call: count it, remember the last call, snapshot.
Enter ==
  /\ pc = "idle"
  /\ calls < MaxCalls
  /\ calls' = calls + 1
  /\ prev' = Summary(result)
  /\ cache0' = cache
  /\ sd0' = sd
  /\ UNCHANGED blocked

\* ------------------------------------------------- download_all_bios

\* The locals of a batch call as the loop starts.  log is the outcome the
\* environment gave each entry processed so far.
BatchCall(op, skip_cached, required_only) ==
  [op |-> op, skip_cached |-> skip_cached, required_only |-> required_only,
   idx |-> 1,
   succeeded |-> <<>>, failed |-> <<>>, log |-> <<>>]

\* The call ended in an exception; at is the loop index it came from, 0 when
\* it came from before the loop.
Raised(c, at) ==
  [op |-> c.op, status |-> "raised", skip_cached |-> c.skip_cached,
   required_only |-> c.required_only, at |-> at]

\* Returned with a fault: all_ok says that something succeeded.
ReturnedAnySucceeded(c) ==
  [op |-> c.op, status |-> "returned", skip_cached |-> c.skip_cached,
   required_only |-> c.required_only, overall |-> Len(c.succeeded) > 0,
   succeeded |-> c.succeeded, failed |-> c.failed, log |-> c.log]

\* all_ok = len(failed) == 0; return all_ok, succeeded, failed
Returned(c) ==
  [op |-> c.op, status |-> "returned", skip_cached |-> c.skip_cached,
   required_only |-> c.required_only, overall |-> Len(c.failed) = 0,
   succeeded |-> c.succeeded, failed |-> c.failed, log |-> c.log]

\* The call starts: cache_dir.mkdir succeeds, the locals are set up.
DownloadAllBegin(skip_cached, required_only) ==
  /\ Enter
  /\ "cache_dir" \notin blocked
  /\ pc' = "download_all"
  /\ call' = BatchCall("download_all_bios", skip_cached, required_only)
  /\ result' = NoResult
  /\ requests' = <<>>
  /\ progress' = <<>>
  /\ UNCHANGED <<cache, sd, faults>>

\* DownloadAllMkdirError with a fault: the failure to create the cache
\* directory is swallowed and the loop is entered.
DownloadAllMkdirIgnored(skip_cached, required_only) ==
  /\ Enter
  /\ "cache_dir" \in blocked
  /\ pc' = "download_all"
  /\ call' = BatchCall("download_all_bios", skip_cached, required_only)
  /\ result' = NoResult
  /\ requests' = <<>>
  /\ progress' = <<>>
  /\ UNCHANGED <<cache, sd, faults>>

\* cache_dir.mkdir raises: the call ends before the loop.
DownloadAllMkdirError(skip_cached, required_only) ==
  /\ Enter
  /\ "cache_dir" \in blocked
  /\ result' = Raised(BatchCall("download_all_bios", skip_cached,
                                 required_only), 0)
  /\ requests' = <<>>
  /\ progress' = <<>>
  /\ UNCHANGED <<cache, sd, pc, call, faults>>

\* The filtered list of the call in progress, the entry the loop is at, and
\* frac = idx / max(total, 1) as the pair (entries before it, total).
CallFiles == Files(call.required_only)

Entry == CallFiles[call.idx]

Total == Len(CallFiles)

\* Frac with a fault: the fraction counts the entries still to come.
FracRemaining(text) ==
  <<Total - (call.idx - 1), IF Total > 1 THEN Total ELSE 1, text>>

Frac(text) == <<call.idx - 1, IF Total > 1 THEN Total ELSE 1, text>>

\* IsCached with a fault: the cached file is not verified.
IsCachedUnverified(entry) == cache[_cache_path_for(entry)].exists

\* IsCached with a fault: the cache is never consulted.
IsCachedNever(entry) == FALSE

\* The cache check of the loop body.
IsCached(entry) ==
  /\ cache[_cache_path_for(entry)].exists
  /\ verify_md5(cache[_cache_path_for(entry)], entry.md5)

\* Record with a fault: the newest entry is put at the head of its list.
RecordPrepends(c, ok, msg, o) ==
  LET filename == Files(c.required_only)[c.idx].filename IN
  [c EXCEPT
     !.succeeded = IF ok THEN <<filename>> \o @ ELSE @,
     !.failed = IF ok THEN @ ELSE <<filename \o ": " \o msg>> \o @,
     !.log = Append(@, [filename |-> filename, o |-> o]),
     !.idx = @ + 1]

\* Record with a fault: a failing entry empties the succeeded list.
RecordFailureClears(c, ok, msg, o) ==
  LET filename == Files(c.required_only)[c.idx].filename IN
  [c EXCEPT
     !.succeeded = IF ok THEN Append(@, filename) ELSE <<>>,
     !.failed = IF ok THEN @ ELSE Append(@, filename \o ": " \o msg),
     !.log = Append(@, [filename |-> filename, o |-> o]),
     !.idx = @ + 1]

\* The locals after one iteration that ended with ok and msg.
Record(c, ok, msg, o) ==
  LET filename == Files(c.required_only)[c.idx].filename IN
  [c EXCEPT
     !.succeeded = IF ok THEN Append(@, filename) ELSE @,
     !.failed = IF ok THEN @ ELSE Append(@, filename \o ": " \o msg),
     !.log = Append(@, [filename |-> filename, o |-> o]),
     !.idx = @ + 1]

\* One iteration, skip branch: cached and verified, no download.
DownloadAllCached ==
  /\ pc = "download_all"
  /\ call.idx <= Total
  /\ call.skip_cached
  /\ IsCached(Entry)
  /\ progress' = Append(progress, Frac("Cached: " \o Entry.filename))
  /\ call' = Record(call, TRUE, "", [kind |-> "cached"])
  /\ UNCHANGED <<cache, sd, blocked, pc, result, requests, cache0, sd0,
                 prev, calls, faults>>

\* One iteration, download branch: download_bios_file and its outcome.
DownloadAllFetch ==
  /\ pc = "download_all"
  /\ call.idx <= Total
  /\ ~(call.skip_cached /\ IsCached(Entry))
  /\ \E o \in DownloadOutcomes(Entry, blocked) :
       LET r == download_bios_file(Entry, cache, o) IN
       /\ Allowed(Nominal(Entry, o))
       /\ faults' = Charge(Nominal(Entry, o))
       /\ progress' = Append(progress,
                              Frac("Downloading: " \o Entry.filename))
                       \o PerFileProgress(Entry, o, ForwardedProgressCb,
                                          [present |-> TRUE,
                                           value |-> BodyChunks])
       /\ cache' = r.cache
       /\ requests' = IF r.requested THEN Append(requests, Entry.filename)
                      ELSE requests
       /\ IF r.raised
            THEN /\ pc' = "idle"
                 /\ result' = Raised(call, call.idx)
                 /\ call' = NoCall
            ELSE /\ pc' = pc
                 /\ result' = result
                 /\ call' = Record(call, r.ok, r.msg, o)
  /\ UNCHANGED <<sd, blocked, cache0, sd0, prev, calls>>

\* After the loop: the last progress callback and the return.
DownloadAllReturn ==
  /\ pc = "download_all"
  /\ call.idx > Total
  /\ progress' = Append(progress, <<1, 1, "Download complete">>)
  /\ result' = Returned(call)
  /\ pc' = "idle"
  /\ call' = NoCall
  /\ UNCHANGED <<cache, sd, blocked, requests, cache0, sd0, prev, calls,
                 faults>>

\* ------------------------------------------------ download_bios_file

\* A direct call of download_bios_file for one catalog entry, without a
\* progress callback.
DownloadBiosFile(i) ==
  /\ Enter
  /\ \E o \in DownloadOutcomes(Catalog[i], blocked) :
       LET r == download_bios_file(Catalog[i], cache, o) IN
       /\ Allowed(Nominal(Catalog[i], o))
       /\ faults' = Charge(Nominal(Catalog[i], o))
       /\ cache' = r.cache
       /\ requests' = IF r.requested THEN <<Catalog[i].filename>> ELSE <<>>
       /\ result' = [op |-> "download_bios_file",
                     status |-> IF r.raised THEN "raised" ELSE "returned",
                     entry |-> i, o |-> o, ok |-> r.ok, msg |-> r.msg]
  /\ progress' = <<>>
  /\ UNCHANGED <<sd, pc, call>>

\* ------------------------------------------------ install_bios_to_sd

\* The copies of one entry, in the order the code makes them: the primary
\* destination under BIOS/, then each extra copy.
CopyTargets(entry) ==
  <<dest_path_for(entry)>>
  \o [j \in 1..Len(entry.extra_copies) |-> extra_dest(entry.extra_copies[j])]

\* What the filesystem can do to the copies of one entry.  done copies
\* succeeded and the next one raised OSError (from mkdir or from copy2),
\* leaving its destination untouched (left = -1) or holding the first left
\* chunks of the source (all of them when copy2 failed after the data).
InstallOutcomes(entry, src) ==
  {[kind |-> "ok", done |-> Len(CopyTargets(entry)), left |-> -1]}
  \cup {[kind |-> "copy_error", done |-> d, left |-> l] :
          d \in 0..(Len(CopyTargets(entry)) - 1), l \in -1..Len(src.data)}

\* CopyAll with a fault: the destination of a copy that failed part-way is
\* removed.
CopyAllCleansUp(entry, src, disk, o) ==
  LET targets == CopyTargets(entry) IN
  [p \in DOMAIN disk |->
     IF \E j \in 1..o.done : targets[j] = p
       THEN File(src.data)
     ELSE IF o.kind = "copy_error" /\ o.left >= 0 /\ targets[o.done + 1] = p
       THEN NoFile
     ELSE disk[p]]

\* CopyAll with a fault: after a copy that failed the remaining copies of
\* the entry are still made.
CopyAllKeepsGoing(entry, src, disk, o) ==
  LET targets == CopyTargets(entry) IN
  [p \in DOMAIN disk |->
     IF o.kind = "copy_error" /\ o.left >= 0 /\ targets[o.done + 1] = p
       THEN File(SubSeq(src.data, 1, o.left))
     ELSE IF o.kind = "copy_error" /\ targets[o.done + 1] = p
       THEN disk[p]
     ELSE IF \E j \in 1..Len(targets) : targets[j] = p
       THEN File(src.data)
     ELSE disk[p]]

\* CopyAll with a fault: when a copy fails, the copies of the entry already
\* made by the call are undone.
CopyAllRollsBack(entry, src, disk, o) ==
  LET targets == CopyTargets(entry) IN
  [p \in DOMAIN disk |->
     IF o.kind = "copy_error" /\ o.left >= 0 /\ targets[o.done + 1] = p
       THEN File(SubSeq(src.data, 1, o.left))
     ELSE IF o.kind = "ok" /\ (\E j \in 1..o.done : targets[j] = p)
       THEN File(src.data)
     ELSE disk[p]]

\* CopyAll with a fault: only the primary destination is written.
CopyAllPrimaryOnly(entry, src, disk, o) ==
  [p \in DOMAIN disk |->
     IF o.done >= 1 /\ dest_path_for(entry) = p
       THEN File(src.data)
     ELSE disk[p]]

\* shutil.copy2(src, dest) for every copy the outcome lets through.
CopyAll(entry, src, disk, o) ==
  LET targets == CopyTargets(entry) IN
  [p \in DOMAIN disk |->
     IF \E j \in 1..o.done : targets[j] = p
       THEN File(src.data)
     ELSE IF o.kind = "copy_error" /\ o.left >= 0 /\ targets[o.done + 1] = p
       THEN File(SubSeq(src.data, 1, o.left))
     ELSE disk[p]]

\* src.is_file() for the entry's cache path.
SrcIsFileAlways(c, entry) == TRUE

SrcIsFile(c, entry) == c[_cache_path_for(entry)].exists

\* The cache after shutil.copy2(src, ...): copy2 opens src for reading only.
\* SourceAfterMove is a move in its place, which takes the source away.
SourceAfterMove(c, entry) ==
  [c EXCEPT ![_cache_path_for(entry)] = NoFile]

SourceAfterCopy(c, entry) == c

\* The call starts: bios_dir.mkdir succeeds, the locals are set up.
InstallBegin(required_only) ==
  /\ Enter
  /\ "sd_mount/BIOS" \notin blocked
  /\ pc' = "install"
  /\ call' = BatchCall("install_bios_to_sd", FALSE, required_only)
  /\ result' = NoResult
  /\ requests' = <<>>
  /\ progress' = <<>>
  /\ UNCHANGED <<cache, sd, faults>>

\* bios_dir.mkdir raises: the call ends before the loop.
InstallMkdirError(required_only) ==
  /\ Enter
  /\ "sd_mount/BIOS" \in blocked
  /\ result' = Raised(BatchCall("install_bios_to_sd", FALSE, required_only), 0)
  /\ requests' = <<>>
  /\ progress' = <<>>
  /\ UNCHANGED <<cache, sd, pc, call, faults>>

\* One iteration, src is not a file: "not in cache", no callback, no copy.
InstallNotCached ==
  /\ pc = "install"
  /\ call.idx <= Total
  /\ ~SrcIsFile(cache, Entry)
  /\ call' = Record(call, FALSE, "not in cache", [kind |-> "not_in_cache"])
  /\ UNCHANGED <<cache, sd, blocked, pc, result, requests, progress, cache0,
                 sd0, prev, calls, faults>>

\* One iteration, src is a file: the copies inside the try block.
InstallCopy ==
  /\ pc = "install"
  /\ call.idx <= Total
  /\ SrcIsFile(cache, Entry)
  /\ \E o \in InstallOutcomes(Entry, cache[_cache_path_for(Entry)]) :
       /\ Allowed(o.kind = "ok")
       /\ faults' = Charge(o.kind = "ok")
       /\ sd' = CopyAll(Entry, cache[_cache_path_for(Entry)], sd, o)
       /\ call' = Record(call, o.kind = "ok", "OSError", o)
  /\ progress' = Append(progress, Frac("Installing: " \o Entry.filename))
  /\ cache' = SourceAfterCopy(cache, Entry)
  /\ UNCHANGED <<blocked, pc, result, requests, cache0, sd0, prev, calls>>

\* After the loop: the last progress callback and the return.
InstallReturn ==
  /\ pc = "install"
  /\ call.idx > Total
  /\ progress' = Append(progress, <<1, 1, "Installation complete">>)
  /\ result' = Returned(call)
  /\ pc' = "idle"
  /\ call' = NoCall
  /\ UNCHANGED <<cache, sd, blocked, requests, cache0, sd0, prev, calls,
                 faults>>

\* ------------------------------------------------------------- scans

Filenames == {Catalog[i].filename : i \in 1..Len(Catalog)}

\* result[entry["filename"]] = path.is_file(), for each entry in order: a
\* later entry of the same filename overwrites an earlier one's key.
\* paths[i] is the path the scan resolves for catalog entry i.
ScanDict(disk, paths) ==
  [f \in Filenames |->
     LET last == CHOOSE i \in 1..Len(Catalog) :
                   /\ Catalog[i].filename = f
                   /\ \A j \in (i + 1)..Len(Catalog) : Catalog[j].filename # f
     IN disk[paths[last]].exists]

\* scan_cached_bios with a fault: the path is resolved without the subdir.
scan_cached_flat ==
  [f \in Filenames |-> IF <<f>> \in DOMAIN cache THEN cache[<<f>>].exists
                                                  ELSE FALSE]

scan_cached_bios ==
  ScanDict(cache, [i \in 1..Len(Catalog) |-> _cache_path_for(Catalog[i])])

scan_sd_bios ==
  ScanDict(sd, [i \in 1..Len(Catalog) |-> dest_path_for(Catalog[i])])

ScanCachedBios ==
  /\ Enter
  /\ result' = [op |-> "scan_cached_bios", status |-> "returned",
                found |-> scan_cached_bios]
  /\ requests' = <<>>
  /\ progress' = <<>>
  /\ UNCHANGED <<cache, sd, pc, call, faults>>

ScanSdBios ==
  /\ Enter
  /\ result' = [op |-> "scan_sd_bios", status |-> "returned",
                found |-> scan_sd_bios]
  /\ requests' = <<>>
  /\ progress' = <<>>
  /\ UNCHANGED <<cache, sd, pc, call, faults>>

\* ------------------------------------------------------ specification

Next ==
  \/ \E s \in BOOLEAN, r \in BOOLEAN : DownloadAllBegin(s, r)
  \/ \E s \in BOOLEAN, r \in BOOLEAN : DownloadAllMkdirError(s, r)
  \/ DownloadAllCached
  \/ DownloadAllFetch
  \/ DownloadAllReturn
  \/ \E i \in 1..Len(Catalog) : DownloadBiosFile(i)
  \/ \E r \in BOOLEAN : InstallBegin(r)
  \/ \E r \in BOOLEAN : InstallMkdirError(r)
  \/ InstallNotCached
  \/ InstallCopy
  \/ InstallReturn
  \/ ScanCachedBios
  \/ ScanSdBios

Spec == Init /\ [][Next]_vars

\* A later session: the cache directory holds every catalog file as an
\* earlier complete fetch left it, and the SD card has, at every destination
\* path, a file of some other content from an earlier installation.  Every
\* directory exists, so none is blocked.
InitProvisioned ==
  /\ cache = [p \in CachePaths |->
                File(Genuine(Catalog[CHOOSE i \in 1..Len(Catalog) :
                                       _cache_path_for(Catalog[i]) = p]))]
  /\ sd = [p \in SdPaths |-> File(Junk)]
  /\ blocked = {}
  /\ pc = "idle"
  /\ call = NoCall
  /\ result = NoResult
  /\ requests = <<>>
  /\ progress = <<>>
  /\ cache0 = cache
  /\ sd0 = sd
  /\ prev = NoResult
  /\ calls = 0
  /\ faults = 0

\* With no directory blocked the two calls' leading mkdir cannot raise.
NextProvisioned ==
  \/ \E s \in BOOLEAN, r \in BOOLEAN : DownloadAllBegin(s, r)
  \/ DownloadAllCached
  \/ DownloadAllFetch
  \/ DownloadAllReturn
  \/ \E i \in 1..Len(Catalog) : DownloadBiosFile(i)
  \/ \E r \in BOOLEAN : InstallBegin(r)
  \/ InstallNotCached
  \/ InstallCopy
  \/ InstallReturn
  \/ ScanCachedBios
  \/ ScanSdBios

SpecProvisioned == InitProvisioned /\ [][NextProvisioned]_vars

\* ------------------------------------------------------------ claims

HasPrefix(s, p) == Len(s) >= Len(p) /\ SubSeq(s, 1, Len(p)) = p

BatchOps == {"download_all_bios", "install_bios_to_sd"}

\* The last call was the batch call op and it returned its result.
BatchReturned(op) ==
  pc = "idle" /\ result.op = op /\ result.status = "returned"

\* The file exists and its digest is the entry's expected checksum (or the
\* entry has none).
Verified(file, entry) ==
  file.exists /\ (entry.md5 = "" \/ hexdigest(file.data) = entry.md5)

\* The entries of failed that are tagged with this filename.
FailedFor(failed, filename) ==
  {k \in DOMAIN failed : HasPrefix(failed[k], filename \o ": ")}

\* C1: after batch fetches followed by a batch install, every entry with a
\* non-empty expected checksum that install_bios_to_sd lists in succeeded has
\* a primary destination file whose digest equals the expected checksum.
C1_NoCorruptFileInstalled ==
  (BatchReturned("install_bios_to_sd") /\ prev.op = "download_all_bios") =>
    \A i \in 1..Len(Catalog) :
      (Catalog[i].md5 # "" /\ Catalog[i].filename \in Range(result.succeeded))
        => /\ sd[dest_path_for(Catalog[i])].exists
           /\ hexdigest(sd[dest_path_for(Catalog[i])].data) = Catalog[i].md5

\* C2: whenever no call is in progress, no catalog entry has a cache file
\* that exists and yet fails verify_md5 against its expected checksum.
C2_CacheNeverHoldsInvalidFile ==
  pc = "idle" =>
    \A i \in 1..Len(Catalog) :
      cache[_cache_path_for(Catalog[i])].exists
        => verify_md5(cache[_cache_path_for(Catalog[i])], Catalog[i].md5)

\* A download of this entry wrote the whole body and the body's digest is
\* not the entry's non-empty expected checksum.
Mismatch(entry, o) ==
  /\ o.kind = "complete"
  /\ entry.md5 # ""
  /\ hexdigest(o.body) # entry.md5

\* C3: when download_bios_file has written the full body and the digest does
\* not match the entry's non-empty expected checksum, it returns failure with
\* a verification-failed message and no file is left at the cache path; in a
\* batch the entry is reported failed with that message and its cache path
\* is empty when the batch returns.
C3_CorruptionCleanup ==
  /\ (result.op = "download_bios_file"
        /\ Mismatch(Catalog[result.entry], result.o)) =>
       /\ result.status = "returned"
       /\ ~result.ok
       /\ result.msg = "MD5 verification failed for "
                         \o Catalog[result.entry].filename
       /\ ~cache[_cache_path_for(Catalog[result.entry])].exists
  /\ BatchReturned("download_all_bios") =>
       \A k \in DOMAIN result.log :
         LET entry == Files(result.required_only)[k] IN
         (result.log[k].o.kind # "cached" /\ Mismatch(entry, result.log[k].o)) =>
           /\ (entry.filename \o ": MD5 verification failed for "
                 \o entry.filename) \in Range(result.failed)
           /\ ~cache[_cache_path_for(entry)].exists

\* C3 witness: a full body with the wrong digest arrived for an entry whose
\* cache held a file before the call.
C3_Witness ==
  /\ result.op = "download_bios_file"
  /\ Mismatch(Catalog[result.entry], result.o)
  /\ cache0[_cache_path_for(Catalog[result.entry])].exists

\* The body arrived whole and its digest is the entry's expected checksum,
\* or the entry has no checksum.
WholeAndVerified(entry, o) ==
  /\ o.kind = "complete"
  /\ o.written = Len(o.body)
  /\ (entry.md5 = "" \/ hexdigest(o.body) = entry.md5)

C5_SucceededAreCachedAndVerified ==
  BatchReturned("download_all_bios") =>
    LET files == Files(result.required_only) IN
    /\ \A i \in 1..Len(Catalog) :
         Catalog[i].filename \in Range(result.succeeded)
           => Verified(cache[_cache_path_for(Catalog[i])], Catalog[i])
    /\ ((\A p \in CachePaths : ~cache0[p].exists)
          /\ \A k \in DOMAIN result.log :
               /\ result.log[k].o.kind = "complete"
               /\ result.log[k].o.body = Genuine(files[k]))
         => /\ result.succeeded = [k \in 1..Len(files) |-> files[k].filename]
            /\ result.failed = <<>>
            /\ result.overall
            /\ \A k \in 1..Len(files) :
                 /\ cache[_cache_path_for(files[k])] = File(Genuine(files[k]))
                 /\ Verified(cache[_cache_path_for(files[k])], files[k])

\* C5 witness: an unfiltered batch from an empty cache returned with every
\* entry in succeeded.
C5_Witness ==
  /\ BatchReturned("download_all_bios")
  /\ ~result.required_only
  /\ \A p \in CachePaths : ~cache0[p].exists
  /\ Len(result.succeeded) = Len(Catalog)
  /\ \A k \in DOMAIN result.log : result.log[k].o.kind = "complete"

\* A batch call has ended, by returning or by raising from inside its loop
\* (not from creating its root directory, before any entry).
BatchEnded ==
  /\ pc = "idle"
  /\ result.op \in BatchOps
  /\ ~(result.status = "raised" /\ result.at = 0)

\* The filename is reported exactly once: in succeeded, or as the tag of one
\* failed string.
ReportedOnce(r, filename) ==
  Cardinality({k \in DOMAIN r.succeeded : r.succeeded[k] = filename})
    + Cardinality(FailedFor(r.failed, filename)) = 1

\* C6: in download_all_bios and install_bios_to_sd every entry of the
\* filtered catalog is attempted regardless of earlier failures and its
\* filename appears exactly once in the result, in succeeded or as the tag of
\* one failed string, so len(succeeded) + len(failed) is the number of
\* filtered entries.
C6_EveryEntryReportedOnce ==
  BatchEnded =>
    /\ result.status = "returned"
    /\ Len(result.log) = Len(Files(result.required_only))
    /\ Len(result.succeeded) + Len(result.failed)
         = Len(Files(result.required_only))
    /\ \A k \in 1..Len(Files(result.required_only)) :
         ReportedOnce(result, Files(result.required_only)[k].filename)

\* C7: no per-asset failure (HTTP status, connection error, timeout, cache
\* subdirectory creation, file write, checksum mismatch, missing cache file,
\* copy failure) escapes a batch call: the call returns and lists the entry
\* in failed with a filename-tagged reason.
C7_PerAssetErrorsNeverEscape ==
  BatchEnded =>
    /\ result.status = "returned"
    /\ \A k \in DOMAIN result.log :
         result.log[k].o.kind
             \in {"http_error", "url_error", "timeout", "os_error",
                  "mkdir_error", "not_in_cache", "copy_error"}
           => FailedFor(result.failed, result.log[k].filename) # {}

\* C8: the overall flag returned by download_all_bios and by
\* install_bios_to_sd is true if and only if the returned failed list is
\* empty.
C8_OverallIffNoFailure ==
  (result.op \in BatchOps /\ result.status = "returned") =>
    (result.overall <=> result.failed = <<>>)

\* C8 witness: a batch fetch returned overall true and the install after it
\* returned overall false with a non-empty failed list.
C8_Witness ==
  /\ BatchReturned("install_bios_to_sd")
  /\ ~result.overall
  /\ result.failed # <<>>
  /\ prev.op = "download_all_bios"
  /\ prev.overall
  /\ prev.failed = <<>>

\* This download_all_bios run with skip_cached (in progress or ended) came
\* right after a download_all_bios run with skip_cached and the same
\* required_only that returned.
SecondRun(r) ==
  /\ r.op = "download_all_bios"
  /\ r.skip_cached
  /\ prev.op = "download_all_bios"
  /\ prev.skip_cached
  /\ prev.required_only = r.required_only

\* C9: if a download_all_bios run with skip_cached fully succeeded, a second
\* run with skip_cached and the same required_only issues no network
\* request, leaves the cache unchanged and returns the same succeeded list
\* with an empty failed list.
C9_SecondRunIsIdle ==
  /\ (pc = "download_all" /\ SecondRun(call) /\ prev.overall) =>
       /\ requests = <<>>
       /\ cache = cache0
  /\ (pc = "idle" /\ SecondRun(result) /\ prev.overall) =>
       /\ result.status = "returned"
       /\ requests = <<>>
       /\ cache = cache0
       /\ result.succeeded = prev.succeeded
       /\ result.failed = <<>>
       /\ result.overall

\* C9 witness: the second run has returned, after a first run that
\* downloaded the whole catalog.
C9_Witness ==
  /\ BatchReturned("download_all_bios")
  /\ SecondRun(result)
  /\ prev.overall
  /\ Len(prev.succeeded) = Len(Catalog)

\* C10: in a download_all_bios run with skip_cached that follows a partially
\* failed run, a network request is issued for an entry if and only if its
\* cache file is missing or fails verification; entries that succeeded in
\* the earlier run are not fetched again.
C10_RetryFetchesExactlyTheInvalid ==
  (BatchEnded /\ result.op = "download_all_bios" /\ result.skip_cached
     /\ prev.op = "download_all_bios" /\ ~prev.overall
     /\ prev.succeeded # <<>>) =>
    /\ \A k \in 1..Len(Files(result.required_only)) :
         LET entry == Files(result.required_only)[k] IN
         entry.filename \in Range(requests)
           <=> ~Verified(cache0[_cache_path_for(entry)], entry)
    /\ \A f \in Range(prev.succeeded) : f \notin Range(requests)

\* A batch call of this operation is in its loop or has returned; Locals
\* are then its succeeded, failed and log lists and its two flags.
InBatch(op) == (pc # "idle" /\ call.op = op) \/ BatchReturned(op)

Locals == IF pc = "idle" THEN result ELSE call

\* The file holds a proper prefix of the entry's upstream body: what an
\* interrupted download leaves behind.
Truncated(file, entry) ==
  /\ file.exists
  /\ Len(file.data) < Len(Genuine(entry))
  /\ file.data = SubSeq(Genuine(entry), 1, Len(file.data))

\* C11: for every catalog entry, a truncated file at the entry's cache path
\* fails verify_md5, and a download_all_bios with skip_cached=true that found
\* such a file when it started does not report the entry as cached but
\* requests it again.
C11_TruncatedFileIsFetchedAgain ==
  /\ \A i \in 1..Len(Catalog) :
       Truncated(cache[_cache_path_for(Catalog[i])], Catalog[i])
         => ~verify_md5(cache[_cache_path_for(Catalog[i])], Catalog[i].md5)
  /\ (InBatch("download_all_bios") /\ Locals.skip_cached) =>
       \A k \in DOMAIN Locals.log :
         LET entry == Files(Locals.required_only)[k] IN
         Truncated(cache0[_cache_path_for(entry)], entry) =>
           /\ Locals.log[k].o.kind # "cached"
           /\ entry.filename \in Range(requests)

\* C12: in download_all_bios with skip_cached=true, an entry whose cache
\* file existed and passed verify_md5 when the call started is in succeeded
\* (and not in failed) once the loop has passed it, no request was issued for
\* it, and its cache file is the one that was there.
C12_SkipCachedNoRequestNoRewrite ==
  (InBatch("download_all_bios") /\ Locals.skip_cached) =>
    \A k \in DOMAIN Locals.log :
      LET entry == Files(Locals.required_only)[k]
          path == _cache_path_for(entry)
      IN (cache0[path].exists /\ verify_md5(cache0[path], entry.md5)) =>
           /\ entry.filename \in Range(Locals.succeeded)
           /\ FailedFor(Locals.failed, entry.filename) = {}
           /\ entry.filename \notin Range(requests)
           /\ cache[path] = cache0[path]

\* C12 witness: a returned skip_cached run that skipped one entry over its
\* verified cache file and requested another.
C12_Witness ==
  /\ BatchReturned("download_all_bios")
  /\ result.skip_cached
  /\ requests # <<>>
  /\ \E k \in DOMAIN result.log :
       LET entry == Files(result.required_only)[k] IN
       /\ cache0[_cache_path_for(entry)].exists
       /\ verify_md5(cache0[_cache_path_for(entry)], entry.md5)
       /\ entry.md5 # ""

\* C13: for an entry with an empty expected checksum verify_md5 returns true
\* whatever its cache file holds; a download that wrote a whole body, of any
\* bytes, returns success and counts as succeeded in a batch; a skip_cached
\* run that finds a cache file for it reports it cached; and
\* install_bios_to_sd does not turn it away: whenever its cache file exists
\* the copies are attempted, and when they go through it is in succeeded
\* with the destination holding the cache file's bytes.
C13_SkipSentinel ==
  /\ \A i \in 1..Len(Catalog) :
       Catalog[i].md5 = "" =>
         /\ verify_md5(cache[_cache_path_for(Catalog[i])], Catalog[i].md5)
         /\ verify_md5(File(Junk), Catalog[i].md5)
         /\ verify_md5(File(<<>>), Catalog[i].md5)
  /\ (result.op = "download_bios_file"
        /\ Catalog[result.entry].md5 = ""
        /\ result.o.kind = "complete") =>
       /\ result.status = "returned"
       /\ result.ok
       /\ cache[_cache_path_for(Catalog[result.entry])] = File(result.o.body)
  /\ InBatch("download_all_bios") =>
       \A k \in DOMAIN Locals.log :
         LET entry == Files(Locals.required_only)[k]
             o == Locals.log[k].o
         IN entry.md5 = "" =>
              /\ o.kind = "complete" =>
                   entry.filename \in Range(Locals.succeeded)
              /\ (Locals.skip_cached /\ cache0[_cache_path_for(entry)].exists)
                   => (o.kind = "cached"
                         /\ entry.filename \in Range(Locals.succeeded))
  /\ InBatch("install_bios_to_sd") =>
       \A k \in DOMAIN Locals.log :
         LET entry == Files(Locals.required_only)[k]
             o == Locals.log[k].o
         IN (entry.md5 = "" /\ cache0[_cache_path_for(entry)].exists) =>
              /\ o.kind # "not_in_cache"
              /\ o.kind = "ok" =>
                   /\ entry.filename \in Range(Locals.succeeded)
                   /\ sd[dest_path_for(entry)]
                        = cache0[_cache_path_for(entry)]

\* C13 witness: an entry without checksum whose cache file holds bytes that
\* are not its upstream body was installed and is in succeeded.
C13_Witness ==
  /\ BatchReturned("install_bios_to_sd")
  /\ \E k \in DOMAIN result.log :
       LET entry == Files(result.required_only)[k] IN
       /\ entry.md5 = ""
       /\ cache[_cache_path_for(entry)] = File(Junk)
       /\ entry.filename \in Range(result.succeeded)

\* The catalog entries flagged required, and the others.
RequiredEntries == {i \in 1..Len(Catalog) : Catalog[i].required}

OptionalEntries == {i \in 1..Len(Catalog) : ~Catalog[i].required}

\* C14: while and after download_all_bios or install_bios_to_sd runs with
\* required_only=true, every entry it has processed is flagged required, and
\* no optional entry is requested, named in a progress text, listed in
\* succeeded or failed, or has its cache file or any of its destination
\* files changed; when the call returns it has processed every required
\* entry once.
C14_RequiredOnlyFilter ==
  \A op \in BatchOps :
    (InBatch(op) /\ Locals.required_only) =>
      /\ \A k \in DOMAIN Locals.log :
           \E i \in RequiredEntries : Locals.log[k].filename = Catalog[i].filename
      /\ \A i \in OptionalEntries :
           LET filename == Catalog[i].filename IN
           /\ filename \notin Range(requests)
           /\ filename \notin Range(Locals.succeeded)
           /\ FailedFor(Locals.failed, filename) = {}
           /\ \A k \in DOMAIN progress :
                progress[k][3] \notin {"Downloading: " \o filename,
                                       "Cached: " \o filename,
                                       "Installing: " \o filename}
           /\ cache[_cache_path_for(Catalog[i])]
                = cache0[_cache_path_for(Catalog[i])]
           /\ \A t \in Range(CopyTargets(Catalog[i])) : sd[t] = sd0[t]
      /\ pc = "idle" =>
           /\ Len(Locals.log) = Cardinality(RequiredEntries)
           /\ \A i \in RequiredEntries :
                \E k \in DOMAIN Locals.log :
                  Locals.log[k].filename = Catalog[i].filename

\* C14 witness: install_bios_to_sd with required_only=true returned with a
\* required entry installed while an optional entry's cache file was there
\* to be copied.
C14_Witness ==
  /\ BatchReturned("install_bios_to_sd")
  /\ result.required_only
  /\ result.succeeded # <<>>
  /\ \E i \in OptionalEntries : cache[_cache_path_for(Catalog[i])].exists

\* The outcomes of a download that are transport errors: an HTTP error
\* status, an unreachable host, a timeout.
TransportErrors == {"http_error", "url_error", "timeout"}

\* C15: in a batch fetch, once the loop has passed an entry A whose download
\* failed with a transport error and an entry B whose genuine body arrived
\* whole, in either order, B is in succeeded and not in failed, and A is in
\* failed and not in succeeded; and in the install that follows a returned
\* fetch, an entry the fetch listed in succeeded is found in the cache, and
\* when its copies go through it is in succeeded with every destination
\* holding the bytes of its cache file.
C15_PartialFailureIsolation ==
  /\ InBatch("download_all_bios") =>
       \A ka, kb \in DOMAIN Locals.log :
         LET A == Files(Locals.required_only)[ka]
             B == Files(Locals.required_only)[kb]
         IN (/\ Locals.log[ka].o.kind \in TransportErrors
             /\ Locals.log[kb].o.kind = "complete"
             /\ Locals.log[kb].o.body = Genuine(B)) =>
              /\ B.filename \in Range(Locals.succeeded)
              /\ FailedFor(Locals.failed, B.filename) = {}
              /\ FailedFor(Locals.failed, A.filename) # {}
              /\ A.filename \notin Range(Locals.succeeded)
  /\ (InBatch("install_bios_to_sd")
        /\ prev.op = "download_all_bios" /\ prev.failed # <<>>) =>
       \A k \in DOMAIN Locals.log :
         LET B == Files(Locals.required_only)[k] IN
         B.filename \in Range(prev.succeeded) =>
           /\ Locals.log[k].o.kind # "not_in_cache"
           /\ Locals.log[k].o.kind = "ok" =>
                /\ B.filename \in Range(Locals.succeeded)
                /\ \A t \in Range(CopyTargets(B)) :
                     sd[t] = cache[_cache_path_for(B)]

\* C15 witness: the fetch listed an earlier entry in failed and a later one
\* in succeeded, and the install that followed has copied the later one.
C15_Witness ==
  /\ BatchReturned("install_bios_to_sd")
  /\ prev.op = "download_all_bios"
  /\ \E a, b \in 1..Len(Catalog) :
       /\ a < b
       /\ Catalog[a].filename \in Range(prev.failed)
       /\ Catalog[b].filename \in Range(prev.succeeded)
       /\ Catalog[b].filename \in Range(result.succeeded)
       /\ sd[dest_path_for(Catalog[b])].exists

\* C16: in download_all_bios, once the loop has passed an entry whose
\* request was answered with an HTTP error status, failed holds that entry
\* with a reason that starts with the status code, succeeded does not hold
\* it, its cache path is as it was when the call started, every entry whose
\* body arrived whole and verified is in succeeded, and the call returns
\* overall=false.
C16_HttpErrorIsReported ==
  InBatch("download_all_bios") =>
    \A k \in DOMAIN Locals.log :
      LET entry == Files(Locals.required_only)[k] IN
      Locals.log[k].o.kind = "http_error" =>
        /\ \E j \in DOMAIN Locals.failed :
             HasPrefix(Locals.failed[j],
                       entry.filename \o ": HTTP 404 downloading "
                         \o entry.filename)
        /\ entry.filename \notin Range(Locals.succeeded)
        /\ cache[_cache_path_for(entry)] = cache0[_cache_path_for(entry)]
        /\ \A kb \in DOMAIN Locals.log :
             WholeAndVerified(Files(Locals.required_only)[kb], Locals.log[kb].o)
               => Locals.log[kb].filename \in Range(Locals.succeeded)
        /\ pc = "idle" => ~Locals.overall

\* C16 witness: a returned run in which one entry got the HTTP error, over a
\* cache file that was there before, and another entry was fetched.
C16_Witness ==
  /\ BatchReturned("download_all_bios")
  /\ result.succeeded # <<>>
  /\ \E k \in DOMAIN result.log :
       /\ result.log[k].o.kind = "http_error"
       /\ cache0[_cache_path_for(Files(result.required_only)[k])].exists
  /\ \E k \in DOMAIN result.log : result.log[k].o.kind = "complete"

\* C17: in install_bios_to_sd, once the loop has passed a filtered entry
\* whose cache file is absent, failed holds "filename: not in cache" for it,
\* succeeded does not hold it, none of its destination paths has changed, and
\* no request was issued and no cache file changed; a call that started with
\* an empty cache returns succeeded=[], every filtered entry in failed in
\* catalog order, overall=false, and leaves the SD card as it was.
C17_NotInCache ==
  /\ InBatch("install_bios_to_sd") =>
       /\ requests = <<>>
       /\ cache = cache0
       /\ \A k \in DOMAIN Locals.log :
            LET entry == Files(Locals.required_only)[k] IN
            ~cache0[_cache_path_for(entry)].exists =>
              /\ (entry.filename \o ": not in cache") \in Range(Locals.failed)
              /\ entry.filename \notin Range(Locals.succeeded)
              /\ \A t \in Range(CopyTargets(entry)) : sd[t] = sd0[t]
  /\ (BatchReturned("install_bios_to_sd")
        /\ \A p \in CachePaths : ~cache0[p].exists) =>
       /\ result.succeeded = <<>>
       /\ result.failed
            = [k \in 1..Len(Files(result.required_only)) |->
                 Files(result.required_only)[k].filename \o ": not in cache"]
       /\ ~result.overall
       /\ sd = sd0

\* C17 witness: a returned install that turned one entry away as not in
\* cache and copied another.
C17_Witness ==
  /\ BatchReturned("install_bios_to_sd")
  /\ result.succeeded # <<>>
  /\ \E k \in DOMAIN result.log :
       ~cache0[_cache_path_for(Files(result.required_only)[k])].exists

\* C18: for every entry that install_bios_to_sd has listed in succeeded, the
\* primary destination and each of its N extra-copy targets are N+1 distinct
\* paths that all exist and hold the bytes of the entry's cache file,
\* whatever they held when the call started.
C18_FanOutCopy ==
  InBatch("install_bios_to_sd") =>
    \A k \in DOMAIN Locals.log :
      LET entry == Files(Locals.required_only)[k] IN
      entry.filename \in Range(Locals.succeeded) =>
        /\ Cardinality(Range(CopyTargets(entry)))
             = Len(entry.extra_copies) + 1
        /\ cache[_cache_path_for(entry)].exists
        /\ \A t \in Range(CopyTargets(entry)) :
             sd[t] = File(cache[_cache_path_for(entry)].data)

\* C18 witness: an entry with an extra-copy target is in succeeded of a
\* returned install, and each of its destinations held other bytes when the
\* call started.
C18_Witness ==
  /\ BatchReturned("install_bios_to_sd")
  /\ \E k \in DOMAIN result.log :
       LET entry == Files(result.required_only)[k] IN
       /\ entry.filename \in Range(result.succeeded)
       /\ entry.extra_copies # <<>>
       /\ \A t \in Range(CopyTargets(entry)) :
            sd0[t].exists /\ sd0[t] # cache[_cache_path_for(entry)]

\* C19: while install_bios_to_sd runs and after it ended, by return or by
\* exception and whatever the outcome of each entry, the cache is what it
\* was when the call started: every file is there with the same bytes; and
\* an install that follows an install finds in the cache every entry the
\* first one listed in succeeded.
C19_InstallLeavesCache ==
  /\ (pc = "install" \/ (pc = "idle" /\ result.op = "install_bios_to_sd")) =>
       /\ cache = cache0
       /\ \A p \in CachePaths :
            cache0[p].exists
              => (cache[p].exists /\ cache[p].data = cache0[p].data)
  /\ (InBatch("install_bios_to_sd") /\ prev.op = "install_bios_to_sd") =>
       \A k \in DOMAIN Locals.log :
         Locals.log[k].filename \in Range(prev.succeeded)
           => Locals.log[k].o.kind # "not_in_cache"

\* C19 witness: a second install in a row has returned; the first copied
\* entries, and the second copied some and failed on another.
C19_Witness ==
  /\ BatchReturned("install_bios_to_sd")
  /\ prev.op = "install_bios_to_sd"
  /\ prev.succeeded # <<>>
  /\ result.succeeded # <<>>
  /\ \E k \in DOMAIN result.log : result.log[k].o.kind = "copy_error"

\* C20: in every step of every sequence of calls, a destination file that
\* is present stays present, and the destination tree changes only in a step
\* of install_bios_to_sd: download_all_bios, download_bios_file,
\* scan_cached_bios and scan_sd_bios leave every destination path as it is.
C20_OnlyInstallWritesDestinations ==
  [][/\ \A p \in SdPaths : sd[p].exists => sd'[p].exists
     /\ sd' # sd =>
          /\ pc = "install"
          /\ call.op = "install_bios_to_sd"
          /\ \A p \in SdPaths :
               sd'[p] # sd[p] => p \in Range(CopyTargets(Entry))]_vars

\* C20 witness: after an install that wrote destination files, a fetch or a
\* scan has run and the destination tree is what the install left.
C20_Witness ==
  /\ pc = "idle"
  /\ result.op \in {"download_all_bios", "download_bios_file",
                    "scan_cached_bios", "scan_sd_bios"}
  /\ prev.op = "install_bios_to_sd"
  /\ prev.succeeded # <<>>
  /\ sd = sd0
  /\ \E p \in SdPaths : sd[p].exists /\ sd[p] # File(Junk)

\* This step is a fetch of entry with outcome o that returned: an iteration
\* of download_all_bios that called download_bios_file, or a direct call.
FetchStep(entry, o) ==
  \/ /\ pc = "download_all"
     /\ pc' = "download_all"
     /\ call.idx <= Total
     /\ entry = Entry
     /\ Len(call'.log) = Len(call.log) + 1
     /\ call'.log[Len(call'.log)] = [filename |-> entry.filename, o |-> o]
     /\ o.kind # "cached"
  \/ /\ pc = "idle"
     /\ pc' = "idle"
     /\ calls' = calls + 1
     /\ result'.op = "download_bios_file"
     /\ entry = Catalog[result'.entry]
     /\ o = result'.o

\* C21: in every step, a cache path whose file changes is the cache path of
\* the entry that this step fetches, so the cache files of all other entries
\* stay as they are; and a cache file that was there and is gone after the
\* step was removed by a fetch of its own entry that wrote the whole body and
\* found a digest other than the expected checksum.
C21_CacheDeletionOnlyOnMismatch ==
  [][\A p \in CachePaths :
       cache'[p] # cache[p] =>
         \E i \in 1..Len(Catalog) :
           \E o \in DownloadOutcomes(Catalog[i], blocked) :
             /\ FetchStep(Catalog[i], o)
             /\ _cache_path_for(Catalog[i]) = p
             /\ (cache[p].exists /\ ~cache'[p].exists)
                  => Mismatch(Catalog[i], o)]_vars

\* C21 witness: a fetch of one entry ended in checksum mismatch and took its
\* cache file away, and every other cache file is there as before.
C21_Witness ==
  /\ result.op = "download_bios_file"
  /\ Mismatch(Catalog[result.entry], result.o)
  /\ cache0[_cache_path_for(Catalog[result.entry])].exists
  /\ ~cache[_cache_path_for(Catalog[result.entry])].exists
  /\ \A i \in 1..Len(Catalog) :
       i # result.entry =>
         /\ cache[_cache_path_for(Catalog[i])].exists
         /\ cache[_cache_path_for(Catalog[i])]
              = cache0[_cache_path_for(Catalog[i])]

\* C22: after scan_cached_bios or scan_sd_bios the cache and the destination
\* tree are what they were when the call started, and the dictionary returned
\* has one key per catalog entry whose value is true exactly when a file
\* exists at that entry's resolved path: its cache path for scan_cached_bios,
\* its primary destination path for scan_sd_bios.
C22_ScansReadOnlyAndExact ==
  /\ result.op \in {"scan_cached_bios", "scan_sd_bios"} =>
       /\ result.status = "returned"
       /\ cache = cache0
       /\ sd = sd0
       /\ Cardinality(DOMAIN result.found) = Len(Catalog)
       /\ \A i \in 1..Len(Catalog) : Catalog[i].filename \in DOMAIN result.found
  /\ result.op = "scan_cached_bios" =>
       \A i \in 1..Len(Catalog) :
         result.found[Catalog[i].filename]
           <=> cache[_cache_path_for(Catalog[i])].exists
  /\ result.op = "scan_sd_bios" =>
       \A i \in 1..Len(Catalog) :
         result.found[Catalog[i].filename]
           <=> sd[dest_path_for(Catalog[i])].exists

\* C22 witness: scan_cached_bios answered true for an entry cached in a
\* subdirectory and false for another entry.
C22_Witness ==
  /\ result.op = "scan_cached_bios"
  /\ \E i, j \in 1..Len(Catalog) :
       /\ Catalog[i].subdir # ""
       /\ result.found[Catalog[i].filename]
       /\ ~result.found[Catalog[j].filename]

\* The fractions of the progress callbacks of the run, as pairs: the
\* callback k carries progress[k][1] / progress[k][2].
FractionIsZero(cb) == cb[1] = 0

FractionIsOne(cb) == cb[1] = cb[2]

\* C23: in every download_all_bios and install_bios_to_sd run, the first
\* progress callback the run has made carries fraction 0, and when the run
\* returns the last one it made carries fraction 1.
C23_ProgressBookends ==
  \A op \in BatchOps :
    /\ (InBatch(op) /\ progress # <<>>) => FractionIsZero(progress[1])
    /\ BatchReturned(op) =>
         /\ progress # <<>>
         /\ FractionIsOne(progress[Len(progress)])

\* The run has made a progress callback for the k-th filtered entry, with
\* fraction (k - 1) / (number of filtered entries).
CallbackFor(k, entry, total) ==
  \E j \in DOMAIN progress :
    /\ progress[j][1] = k - 1
    /\ progress[j][2] = total
    /\ progress[j][3] \in {"Downloading: " \o entry.filename,
                           "Cached: " \o entry.filename,
                           "Installing: " \o entry.filename}

\* C24: for every entry a download_all_bios or install_bios_to_sd run has
\* processed, the run has invoked the progress callback for that entry with
\* fraction = (filtered entries before it) / (filtered entries).
C24_PerItemProgress ==
  \A op \in BatchOps :
    InBatch(op) =>
      \A k \in DOMAIN Locals.log :
        CallbackFor(k, Files(Locals.required_only)[k],
                    Len(Files(Locals.required_only)))

\* C25: every progress callback of a batch run carries a fraction
\* numerator / denominator with 0 <= numerator <= denominator and a positive
\* denominator, and of two callbacks of the same run the later one carries a
\* fraction that is not smaller.
C25_FractionsBoundedAndMonotone ==
  /\ \A j \in DOMAIN progress :
       /\ progress[j][2] > 0
       /\ 0 <= progress[j][1]
       /\ progress[j][1] <= progress[j][2]
  /\ \A j, k \in DOMAIN progress :
       j < k =>
         progress[j][1] * progress[k][2] <= progress[k][1] * progress[j][2]

\* C25 witness: a returned run made a callback with fraction 0, then one
\* with a fraction strictly between 0 and 1, then the one with fraction 1.
C25_Witness ==
  /\ \E op \in BatchOps : BatchReturned(op)
  /\ \E j, k \in DOMAIN progress :
       /\ j < k
       /\ k < Len(progress)
       /\ FractionIsZero(progress[j])
       /\ 0 < progress[k][1]
       /\ progress[k][1] < progress[k][2]
       /\ FractionIsOne(progress[Len(progress)])

\* The place in the catalog of the entry of this filename, and of the entry
\* a failed string "filename: reason" is about.
CatalogIndex(filename) ==
  CHOOSE i \in 1..Len(Catalog) : Catalog[i].filename = filename

FailedIndex(text) ==
  CHOOSE i \in 1..Len(Catalog) : HasPrefix(text, Catalog[i].filename \o ": ")

\* The catalog entries the filter of the run lets through.
Filtered(required_only) ==
  {i \in 1..Len(Catalog) : ~required_only \/ Catalog[i].required}

\* C26: in a batch run the k-th entry whose outcome is recorded is the k-th
\* entry of the catalog that passes the filter; while the loop runs every
\* entry before the current one has its outcome recorded and no other has;
\* the requests and the progress callbacks follow the same order; and the
\* filenames of succeeded, and those of failed, are in catalog order.
C26_CatalogOrder ==
  \A op \in BatchOps :
    InBatch(op) =>
      /\ \A k \in DOMAIN Locals.log :
           LET i == CatalogIndex(Locals.log[k].filename) IN
           /\ i \in Filtered(Locals.required_only)
           /\ Cardinality({j \in Filtered(Locals.required_only) : j < i})
                = k - 1
      /\ pc # "idle" => Len(call.log) = call.idx - 1
      /\ Len(Locals.succeeded) + Len(Locals.failed) = Len(Locals.log)
      /\ \A j, k \in DOMAIN Locals.succeeded :
           j < k => CatalogIndex(Locals.succeeded[j])
                      < CatalogIndex(Locals.succeeded[k])
      /\ \A j, k \in DOMAIN Locals.failed :
           j < k => FailedIndex(Locals.failed[j]) < FailedIndex(Locals.failed[k])
      /\ \A j, k \in DOMAIN requests :
           j < k => CatalogIndex(requests[j]) < CatalogIndex(requests[k])

\* C26 witness: a returned run whose succeeded list names two entries and
\* whose failed list names an entry that lies between them in the catalog.
C26_Witness ==
  /\ \E op \in BatchOps : BatchReturned(op)
  /\ Len(result.succeeded) >= 2
  /\ \E k \in DOMAIN result.failed :
       /\ CatalogIndex(result.succeeded[1]) < FailedIndex(result.failed[k])
       /\ FailedIndex(result.failed[k]) < CatalogIndex(result.succeeded[2])

\* --------------------------------------------- verify_md5 on its own

\* The files and the expected checksums verify_md5 is applied to: every
\* catalog entry's upstream body, whole and cut short, other bytes and the
\* empty file; no checksum, the checksum of scph1001.bin in lower, upper and
\* mixed case, and that of scph5500.bin in lower and upper case.
VerifyFiles ==
  {File(SubSeq(Genuine(Catalog[i]), 1, n)) :
     i \in 1..Len(Catalog), n \in 0..BodyChunks} \cup {File(Junk)}

VerifyChecksums ==
  {"",
    "924e392ed05558ffdb115408c263dccf",
    "924E392ED05558FFDB115408C263DCCF",
    "924e392eD05558FfDb115408C263DcCf",
    "924E392ed05558fFdb115408C263dcCf",
    "8dd7d5296a650fac7319bce665a6a53c",
    "8DD7D5296A650FAC7319BCE665A6A53C",
    "924e392ed05558ffdb115408c263dcc"}

InitVerify ==
  /\ cache = [p \in CachePaths |-> NoFile]
  /\ sd = [p \in SdPaths |-> NoFile]
  /\ blocked = {}
  /\ pc = "idle"
  /\ \E f \in VerifyFiles, e \in VerifyChecksums :
       call = [op |-> "verify_md5", file |-> f, expected_md5 |-> e]
  /\ result = NoResult
  /\ requests = <<>>
  /\ progress = <<>>
  /\ cache0 = cache
  /\ sd0 = sd
  /\ prev = NoResult
  /\ calls = 0
  /\ faults = 0

\* verify_md5(file_path, expected_md5) is called and returns.
VerifyMd5 ==
  /\ call.op = "verify_md5"
  /\ result.op = "none"
  /\ result' = [op |-> "verify_md5", status |-> "returned",
                value |-> verify_md5(call.file, call.expected_md5)]
  /\ UNCHANGED <<cache, sd, blocked, pc, call, requests, progress, cache0,
                 sd0, prev, calls, faults>>

NextVerify == VerifyMd5

SpecVerify == InitVerify /\ [][NextVerify]_vars

\* Equal up to the case of the letters.
EqualIgnoringCase(a, b) ==
  /\ Len(a) = Len(b)
  /\ \A k \in 1..Len(a) :
       LowerChar(SubSeq(a, k, k)) = LowerChar(SubSeq(b, k, k))

\* C27: verify_md5 returns, and the value it returns is true exactly when
\* the expected checksum is empty or equals the file's computed digest up to
\* the case of its letters; a digest that differs makes it return false.
C27_VerifyMd5CaseInsensitive ==
  result.op = "verify_md5" =>
    /\ result.status = "returned"
    /\ result.value \in BOOLEAN
    /\ result.value
         <=> (call.expected_md5 = ""
                \/ EqualIgnoringCase(hexdigest(call.file.data),
                                     call.expected_md5))

\* C27 witness: verify_md5 returned true for an expected checksum that has
\* upper-case letters.
C27_Witness ==
  /\ result.op = "verify_md5"
  /\ result.value
  /\ call.expected_md5 # ""
  /\ call.expected_md5 # hexdigest(call.file.data)

\* The uniqueness of BIOS_FILES that C28 states, a fact of the catalog alone.
UniqueInCatalog ==
  /\ \A i, j \in 1..Len(BIOS_FILES) :
       i # j =>
         /\ <<BIOS_FILES[i].subdir, BIOS_FILES[i].filename>>
              # <<BIOS_FILES[j].subdir, BIOS_FILES[j].filename>>
         /\ _cache_path_for(BIOS_FILES[i]) # _cache_path_for(BIOS_FILES[j])
         /\ dest_path_for(BIOS_FILES[i]) # dest_path_for(BIOS_FILES[j])
  /\ Cardinality({BIOS_FILES[i].filename : i \in 1..Len(BIOS_FILES)})
       = Len(BIOS_FILES)

\* C28: any two distinct entries of BIOS_FILES differ in the pair (subdir,
\* filename), resolve to different cache paths and to different primary
\* destination paths, and have different filenames, so that a dictionary
\* keyed by filename has one key per entry; the dictionary a scan returns has
\* as many keys as the catalog it scanned has entries.
C28_CatalogPathsUnique ==
  /\ UniqueInCatalog
  /\ Cardinality(CachePaths) = Len(Catalog)
  /\ result.op \in {"scan_cached_bios", "scan_sd_bios"} =>
       Cardinality(DOMAIN result.found) = Len(Catalog)

\* C28 witness: scan_sd_bios has returned, and the catalog has two entries
\* that share a subdirectory and two that share none.
C28_Witness ==
  /\ result.op = "scan_sd_bios"
  /\ \E i, j \in 1..Len(BIOS_FILES) :
       /\ i # j
       /\ BIOS_FILES[i].subdir # ""
       /\ BIOS_FILES[i].subdir = BIOS_FILES[j].subdir
  /\ \A i \in 1..Len(Catalog) : Catalog[i].filename \in DOMAIN result.found

\* A step of a batch call in its loop: one more filtered entry is finished
\* and the loop goes on, or the list is at its end and the call returns
\* (overall, succeeded, failed) with one recorded outcome for each entry.
LoopStepOrReturn ==
  \/ /\ pc' = pc
     /\ call.idx <= Total
     /\ call'.idx = call.idx + 1
     /\ Len(call'.log) = Len(call.log) + 1
  \/ /\ pc' = "idle"
     /\ call.idx = Total + 1
     /\ result'.op = call.op
     /\ result'.status = "returned"
     /\ result'.overall \in BOOLEAN
     /\ Len(result'.log) = Total
     /\ Len(result'.succeeded) + Len(result'.failed) = Total

\* C29: every step of a download_all_bios or install_bios_to_sd call that is
\* in its loop either finishes one more filtered entry and stays in the loop,
\* or ends the call after the last entry by returning a complete report: the
\* call cannot stop before the end of the list, and after as many steps as
\* there are filtered entries it returns.
C29_BatchRunsToCompleteReport ==
  [][(pc \in {"download_all", "install"}) => LoopStepOrReturn]_vars

\* The download failed with a timeout or a write error after at least one
\* chunk had been written to dest.
FailedAfterChunk(o) ==
  o.kind \in {"timeout", "os_error"} /\ o.written >= 1

\* C30: when download_bios_file fails with a timeout or a write error after
\* at least one chunk was written, it returns failure, and the file at the
\* entry's cache path exists and holds the chunks written so far, whatever
\* was there before; in a batch the entry is in failed and the file is still
\* there when the loop has moved on.
C30_PartialFileIsLeft ==
  /\ (result.op = "download_bios_file" /\ FailedAfterChunk(result.o)) =>
       /\ result.status = "returned"
       /\ ~result.ok
       /\ cache[_cache_path_for(Catalog[result.entry])]
            = File(SubSeq(result.o.body, 1, result.o.written))
  /\ InBatch("download_all_bios") =>
       \A k \in DOMAIN Locals.log :
         LET entry == Files(Locals.required_only)[k]
             o == Locals.log[k].o
         IN (o.kind # "cached" /\ FailedAfterChunk(o)) =>
              /\ FailedFor(Locals.failed, entry.filename) # {}
              /\ entry.filename \notin Range(Locals.succeeded)
              /\ cache[_cache_path_for(entry)].exists
              /\ cache[_cache_path_for(entry)].data
                   = SubSeq(o.body, 1, o.written)

\* C30 witness: a download over a whole cache file timed out after its first
\* chunk and the cache path now holds that one chunk.
C30_Witness ==
  /\ result.op = "download_bios_file"
  /\ result.o.kind = "timeout"
  /\ result.o.written = 1
  /\ Len(cache0[_cache_path_for(Catalog[result.entry])].data) = BodyChunks
  /\ Len(cache[_cache_path_for(Catalog[result.entry])].data) = 1

\* C31: in install_bios_to_sd, once the loop has passed an entry one of whose
\* copies failed, failed holds "filename: " followed by the filesystem error,
\* succeeded does not hold the entry, the copies before the failing one hold
\* the cache file's bytes, the copies after it were not made (their
\* destinations are as they were when the call started), and the loop went
\* on: the call returns with an outcome recorded for every filtered entry.
C31_CopyFailureIsIsolated ==
  /\ InBatch("install_bios_to_sd") =>
       \A k \in DOMAIN Locals.log :
         LET entry == Files(Locals.required_only)[k]
             o == Locals.log[k].o
             targets == CopyTargets(entry)
         IN o.kind = "copy_error" =>
              /\ (entry.filename \o ": OSError") \in Range(Locals.failed)
              /\ entry.filename \notin Range(Locals.succeeded)
              /\ \A j \in 1..o.done :
                   sd[targets[j]] = File(cache[_cache_path_for(entry)].data)
              /\ \A j \in (o.done + 2)..Len(targets) :
                   sd[targets[j]] = sd0[targets[j]]
              /\ pc = "install" => call.idx > k
  /\ BatchReturned("install_bios_to_sd") =>
       Len(result.log) = Len(Files(result.required_only))

\* C31 witness: the primary copy of an entry with an extra-copy target
\* failed, its extra copy was not made, and a later entry was installed.
C31_Witness ==
  /\ BatchReturned("install_bios_to_sd")
  /\ \E k \in DOMAIN result.log :
       LET entry == Files(result.required_only)[k] IN
       /\ result.log[k].o.kind = "copy_error"
       /\ result.log[k].o.done = 0
       /\ entry.extra_copies # <<>>
       /\ sd[extra_dest(entry.extra_copies[1])]
            = sd0[extra_dest(entry.extra_copies[1])]
       /\ \E k2 \in DOMAIN result.log :
            k2 > k /\ result.log[k2].filename \in Range(result.succeeded)


\* C32: when the cache root directory cannot be created, download_all_bios
\* never enters its loop: the call ends raised from before the loop, with no
\* request issued, no progress callback invoked, no result tuple (no
\* succeeded or failed list) and the cache as it was.
C32_CacheRootFailureAbortsBatch ==
  "cache_dir" \in blocked =>
    /\ pc # "download_all"
    /\ result.op = "download_all_bios" =>
         /\ result.status = "raised"
         /\ result.at = 0
         /\ "succeeded" \notin DOMAIN result
         /\ requests = <<>>
         /\ progress = <<>>
         /\ cache = cache0

\* C32 witness: a batch fetch was called while the cache root could not be
\* created, and it ended raised.
C32_Witness ==
  /\ "cache_dir" \in blocked
  /\ pc = "idle"
  /\ result.op = "download_all_bios"
  /\ result.status = "raised"


\* ------------------------- download_bios_file with a progress callback

\* One call download_bios_file(bios_entry, cache_dir, progress_cb) on a fresh
\* cache directory: the entry, what the network does to the fetch, whether
\* a callback is passed and the response's Content-Length are the inputs.
InitProgress ==
  /\ cache = [p \in CachePaths |-> NoFile]
  /\ sd = [p \in SdPaths |-> NoFile]
  /\ blocked = {}
  /\ pc = "idle"
  /\ \E i \in 1..Len(Catalog), progress_cb \in BOOLEAN,
        content_length \in ContentLengths :
       \E o \in DownloadOutcomes(Catalog[i], {}) :
         call = [op |-> "download_bios_file", entry |-> i, o |-> o,
                 progress_cb |-> progress_cb,
                 content_length |-> content_length]
  /\ result = NoResult
  /\ requests = <<>>
  /\ progress = <<>>
  /\ cache0 = cache
  /\ sd0 = sd
  /\ prev = NoResult
  /\ calls = 0
  /\ faults = 0

\* The call runs: the cache file is written, the callback invoked, the
\* value returned.
DownloadBiosFileProgress ==
  /\ call.op = "download_bios_file"
  /\ result.op = "none"
  /\ LET r == download_bios_file(Catalog[call.entry], cache, call.o) IN
     /\ cache' = r.cache
     /\ requests' = IF r.requested THEN <<Catalog[call.entry].filename>>
                    ELSE <<>>
     /\ result' = [op |-> "download_bios_file",
                   status |-> IF r.raised THEN "raised" ELSE "returned",
                   entry |-> call.entry, o |-> call.o, ok |-> r.ok,
                   msg |-> r.msg, progress_cb |-> call.progress_cb,
                   content_length |-> call.content_length]
     /\ progress' = PerFileProgress(Catalog[call.entry], call.o,
                                    call.progress_cb, call.content_length)
  /\ UNCHANGED <<sd, blocked, pc, call, cache0, sd0, prev, calls, faults>>

NextProgress == DownloadBiosFileProgress

SpecProgress == InitProgress /\ [][NextProgress]_vars

\* C33: after download_bios_file was called with a progress callback, the
\* callback has been invoked exactly once per chunk written to the cache
\* file; the k-th invocation carries the entry's filename, the size of the
\* first k chunks (so the sizes strictly increase and the last one is the
\* size of the file as written), and as total the Content-Length value, or 0
\* when the response has no such header.
C33_PerFileProgress ==
  (result.op = "download_bios_file" /\ call.progress_cb) =>
    LET entry == Catalog[result.entry]
        o == result.o
        chunks == IF o.written > 0 THEN o.written ELSE 0
        file == cache[_cache_path_for(entry)]
    IN /\ Len(progress) = chunks
       /\ \A k \in 1..Len(progress) :
            /\ progress[k][1] = entry.filename
            /\ progress[k][2] = k
            /\ progress[k][3] = IF result.content_length.present
                                  THEN result.content_length.value ELSE 0
       /\ \A k \in 1..(Len(progress) - 1) : progress[k][2] < progress[k + 1][2]
       /\ (o.written >= 0 /\ file.exists) => Len(file.data) = Len(progress)
       /\ (o.written >= 0 /\ ~file.exists) => ~result.ok

\* C33 witness: a fetch with a callback wrote more than one chunk, under a
\* response without Content-Length.
C33_Witness ==
  /\ result.op = "download_bios_file"
  /\ call.progress_cb
  /\ ~result.content_length.present
  /\ Len(progress) > 1
  /\ result.ok


\* C40: download_all_bios hands no per-file callback to download_bios_file:
\* during a batch fetch the progress events are exactly one batch callback
\* per filtered entry the loop has passed, with status "Cached: " or
\* "Downloading: " and the entry's filename, and after the loop the one
\* final callback with fraction 1.
C40_BatchProgressOnly ==
  InBatch("download_all_bios") =>
    LET files == Files(Locals.required_only)
        passed == IF pc = "idle" THEN Len(files) ELSE call.idx - 1
    IN /\ Len(progress) = IF pc = "idle" THEN passed + 1 ELSE passed
       /\ \A k \in 1..passed :
            progress[k][3] \in {"Cached: " \o files[k].filename,
                                "Downloading: " \o files[k].filename}
       /\ pc = "idle" => progress[passed + 1] = <<1, 1, "Download complete">>

\* C40 witness: a batch fetch that returned after fetching an entry whose
\* body was written in more than one chunk.
C40_Witness ==
  /\ BatchReturned("download_all_bios")
  /\ \E k \in DOMAIN result.log :
       /\ result.log[k].o.written > 1
       /\ progress[k][3] = "Downloading: " \o result.log[k].filename


\* --------------------------------- two download_all_bios calls at once

\* Two calls of download_all_bios on one cache directory, each in a thread
\* or process of its own.  pc and call hold one entry per caller; a step is
\* one access to the file system or the network.  Both calls are made as
\* the desktop window makes them: skip_cached=True, required_only as the
\* checkbox says.
Callers == {"first", "second"}

NoOutcome == [kind |-> "none", body |-> <<>>, written |-> -1]

\* The locals of one call, and of the download_bios_file call it is in: o is
\* what the network does to the fetch, pos the number of chunks written,
\* attached says that the open handle is on the file the cache path names.
ConcurrentCall(skip_cached, required_only) ==
  [op |-> "download_all_bios", skip_cached |-> skip_cached,
   required_only |-> required_only, idx |-> 1,
   succeeded |-> <<>>, failed |-> <<>>,
   o |-> NoOutcome, pos |-> 0, attached |-> FALSE]

InitConcurrent ==
  /\ cache = [p \in CachePaths |-> NoFile]
  /\ sd = [p \in SdPaths |-> NoFile]
  /\ blocked = {}
  /\ pc = [p \in Callers |-> "idle"]
  /\ call = [p \in Callers |-> NoCall]
  /\ result = NoResult
  /\ requests = <<>>
  /\ progress = <<>>
  /\ cache0 = cache
  /\ sd0 = sd
  /\ prev = NoResult
  /\ calls = 0
  /\ faults = 0

ConcurrentEntry(p) == Files(call[p].required_only)[call[p].idx]

ConcurrentFrame ==
  UNCHANGED <<sd, blocked, result, requests, progress, cache0, sd0, prev,
              calls>>

\* fh.write(chunk) at offset pos of a file: what lies beyond is kept, a gap
\* before the offset reads as zero bytes.
WriteAt(data, pos, chunk) ==
  [k \in 1..(IF Len(data) > pos + 1 THEN Len(data) ELSE pos + 1) |->
     IF k = pos + 1 THEN chunk
     ELSE IF k <= Len(data) THEN data[k]
     ELSE "zero"]

\* succeeded.append(filename) or failed.append(f"{filename}: {msg}"), and
\* on to the next entry.
ConcurrentRecord(c, ok, msg) ==
  LET filename == Files(c.required_only)[c.idx].filename IN
  [c EXCEPT
     !.succeeded = IF ok THEN Append(@, filename) ELSE @,
     !.failed = IF ok THEN @ ELSE Append(@, filename \o ": " \o msg),
     !.idx = @ + 1,
     !.o = NoOutcome,
     !.pos = 0,
     !.attached = FALSE]

\* The call starts; cache_dir.mkdir succeeds.
ConcurrentBegin(p, skip_cached, required_only) ==
  /\ pc[p] = "idle"
  /\ pc' = [pc EXCEPT ![p] = "loop"]
  /\ call' = [call EXCEPT ![p] = ConcurrentCall(skip_cached, required_only)]
  /\ UNCHANGED <<cache, faults>>
  /\ ConcurrentFrame

\* skip_cached and the entry is cached and verifies: reported, not fetched.
ConcurrentCached(p) ==
  /\ pc[p] = "loop"
  /\ call[p].idx <= Len(Files(call[p].required_only))
  /\ call[p].skip_cached /\ IsCached(ConcurrentEntry(p))
  /\ call' = [call EXCEPT ![p] = ConcurrentRecord(@, TRUE, "")]
  /\ UNCHANGED <<cache, pc, faults>>
  /\ ConcurrentFrame

\* download_bios_file up to the response: the request fails, or a body is
\* on its way.
ConcurrentUrlopen(p) ==
  /\ pc[p] = "loop"
  /\ call[p].idx <= Len(Files(call[p].required_only))
  /\ ~(call[p].skip_cached /\ IsCached(ConcurrentEntry(p)))
  /\ \E o \in DownloadOutcomes(ConcurrentEntry(p), blocked) :
       /\ Allowed(Nominal(ConcurrentEntry(p), o))
       /\ faults' = Charge(Nominal(ConcurrentEntry(p), o))
       /\ IF o.written < 0
            THEN /\ call' = [call EXCEPT ![p] =
                      ConcurrentRecord(@, FALSE,
                        download_bios_file(ConcurrentEntry(p), cache, o).msg)]
                 /\ pc' = pc
            ELSE /\ call' = [call EXCEPT ![p].o = o]
                 /\ pc' = [pc EXCEPT ![p] = "open"]
  /\ UNCHANGED cache
  /\ ConcurrentFrame

\* open(dest, "wb"): the file the path names is emptied, or a new one made.
ConcurrentOpen(p) ==
  /\ pc[p] = "open"
  /\ cache' = [cache EXCEPT ![_cache_path_for(ConcurrentEntry(p))] = File(<<>>)]
  /\ call' = [call EXCEPT ![p].attached = TRUE, ![p].pos = 0]
  /\ pc' = [pc EXCEPT ![p] = "write"]
  /\ UNCHANGED faults
  /\ ConcurrentFrame

\* fh.write(chunk) for the next chunk of the body; the bytes are lost when
\* the file was unlinked under the handle.
ConcurrentWrite(p) ==
  /\ pc[p] = "write"
  /\ call[p].pos < call[p].o.written
  /\ LET dest == _cache_path_for(ConcurrentEntry(p)) IN
     cache' = IF call[p].attached
                THEN [cache EXCEPT ![dest] =
                        File(WriteAt(@.data, call[p].pos,
                                     call[p].o.body[call[p].pos + 1]))]
                ELSE cache
  /\ call' = [call EXCEPT ![p].pos = @ + 1]
  /\ UNCHANGED <<pc, faults>>
  /\ ConcurrentFrame

\* A timeout or an OSError after the chunks written: the with blocks are
\* left and the failure is recorded.
ConcurrentWriteError(p) ==
  /\ pc[p] = "write"
  /\ call[p].pos = call[p].o.written
  /\ call[p].o.kind # "complete"
  /\ pc' = [pc EXCEPT ![p] = "loop"]
  /\ call' = [call EXCEPT ![p] =
       ConcurrentRecord(@, FALSE,
         download_bios_file(ConcurrentEntry(p), cache, call[p].o).msg)]
  /\ UNCHANGED <<cache, faults>>
  /\ ConcurrentFrame

\* After the whole body the file is closed, and verify_md5(dest, md5) reads
\* what the path names now.  With a checksum to compare,
\* open(file_path, "rb") raises FileNotFoundError when the path is gone, and
\* the exception leaves download_all_bios.
ConcurrentVerify(p) ==
  /\ pc[p] = "write"
  /\ call[p].pos = call[p].o.written
  /\ call[p].o.kind = "complete"
  /\ LET entry == ConcurrentEntry(p)
         file == cache[_cache_path_for(entry)]
     IN IF entry.md5 # "" /\ ~file.exists
          THEN /\ pc' = [pc EXCEPT ![p] = "raised"]
               /\ call' = call
        ELSE IF verify_md5(file, entry.md5)
          THEN /\ pc' = [pc EXCEPT ![p] = "loop"]
               /\ call' = [call EXCEPT ![p] =
                    ConcurrentRecord(@, TRUE, "Downloaded " \o entry.filename)]
          ELSE /\ pc' = [pc EXCEPT ![p] = "unlink"]
               /\ call' = [call EXCEPT ![p].attached = FALSE]
  /\ UNCHANGED <<cache, faults>>
  /\ ConcurrentFrame

\* dest.unlink(missing_ok=True) after the mismatch: the path is gone, and a
\* handle another call holds on the file no longer reaches the path.
ConcurrentUnlink(p) ==
  /\ pc[p] = "unlink"
  /\ LET entry == ConcurrentEntry(p) IN
     /\ cache' = Unlink(cache, _cache_path_for(entry))
     /\ call' = [q \in Callers |->
          IF q = p
            THEN ConcurrentRecord(call[p], FALSE,
                   "MD5 verification failed for " \o entry.filename)
          ELSE IF pc[q] = "write" /\ ConcurrentEntry(q) = entry
            THEN [call[q] EXCEPT !.attached = FALSE]
          ELSE call[q]]
  /\ pc' = [pc EXCEPT ![p] = "loop"]
  /\ UNCHANGED faults
  /\ ConcurrentFrame

\* After the loop: return all_ok, succeeded, failed.
ConcurrentReturn(p) ==
  /\ pc[p] = "loop"
  /\ call[p].idx > Len(Files(call[p].required_only))
  /\ pc' = [pc EXCEPT ![p] = "returned"]
  /\ UNCHANGED <<cache, call, faults>>
  /\ ConcurrentFrame

NextConcurrent ==
  \E p \in Callers :
    \/ \E r \in BOOLEAN : ConcurrentBegin(p, TRUE, r)
    \/ ConcurrentCached(p)
    \/ ConcurrentUrlopen(p)
    \/ ConcurrentOpen(p)
    \/ ConcurrentWrite(p)
    \/ ConcurrentWriteError(p)
    \/ ConcurrentVerify(p)
    \/ ConcurrentUnlink(p)
    \/ ConcurrentReturn(p)

SpecConcurrent == InitConcurrent /\ [][NextConcurrent]_vars

\* Both calls are over, by return or by exception.
BothEnded == \A p \in Callers : pc[p] \in {"returned", "raised"}

\* An entry this call reports in succeeded is not in the cache as a file
\* that verifies.
LostSuccess(p, filename) ==
  /\ pc[p] # "idle"
  /\ filename \in Range(call[p].succeeded)
  /\ ~Verified(cache[_cache_path_for(Catalog[CatalogIndex(filename)])],
               Catalog[CatalogIndex(filename)])

\* C34: with two download_all_bios calls running at once on one cache
\* directory, an entry one call reports in succeeded can be missing from the
\* cache, or there without verifying, once both calls are over; this comes
\* only from the other call's work on the same cache file: the other call
\* reports that entry in failed, or ended on it by an exception.
C34_LostSuccessOnlyByOtherCall ==
  BothEnded =>
    \A p \in Callers : \A i \in 1..Len(Catalog) :
      LostSuccess(p, Catalog[i].filename) =>
        \E q \in Callers \ {p} :
          \/ FailedFor(call[q].failed, Catalog[i].filename) # {}
          \/ pc[q] = "raised" /\ ConcurrentEntry(q) = Catalog[i]

\* C34 witness: both calls have returned, no fetch of either met a fault,
\* and an entry the first one reports in succeeded is missing from the cache.
C34_Witness ==
  /\ \A p \in Callers : pc[p] = "returned"
  /\ faults = 0
  /\ \E i \in 1..Len(Catalog) :
       /\ LostSuccess("first", Catalog[i].filename)
       /\ ~cache[_cache_path_for(Catalog[i])].exists


\* C35: a fetch that returns failure leaves a valid cache entry valid: when
\* download_bios_file, called directly or by download_all_bios with
\* skip_cached=false, returns failure for an entry whose cache file existed
\* and passed verify_md5 before the call, the file still exists and passes
\* verify_md5 afterwards.
C35_FailedFetchKeepsValidEntry ==
  /\ (result.op = "download_bios_file" /\ result.status = "returned"
      /\ ~result.ok) =>
       LET entry == Catalog[result.entry]
           dest == _cache_path_for(entry)
       IN (cache0[dest].exists /\ verify_md5(cache0[dest], entry.md5)) =>
            (cache[dest].exists /\ verify_md5(cache[dest], entry.md5))
  /\ (InBatch("download_all_bios") /\ ~Locals.skip_cached) =>
       \A k \in DOMAIN Locals.log :
         LET entry == Files(Locals.required_only)[k]
             dest == _cache_path_for(entry)
         IN (/\ entry.filename \notin Range(Locals.succeeded)
             /\ cache0[dest].exists
             /\ verify_md5(cache0[dest], entry.md5)) =>
              (cache[dest].exists /\ verify_md5(cache[dest], entry.md5))


\* C36: install_bios_to_sd undoes nothing: once the loop has passed an entry
\* whose primary copy succeeded and one of whose extra copies failed, the
\* entry is in failed and not in succeeded, and the primary destination and
\* every extra copy made before the failing one hold the cache file's bytes.
C36_NoRollback ==
  InBatch("install_bios_to_sd") =>
    \A k \in DOMAIN Locals.log :
      LET entry == Files(Locals.required_only)[k]
          o == Locals.log[k].o
          targets == CopyTargets(entry)
      IN (o.kind = "copy_error" /\ o.done >= 1) =>
           /\ FailedFor(Locals.failed, entry.filename) # {}
           /\ entry.filename \notin Range(Locals.succeeded)
           /\ sd[dest_path_for(entry)].exists
           /\ \A j \in 1..o.done :
                sd[targets[j]].data = cache[_cache_path_for(entry)].data

\* C36 witness: an install returned after an extra copy failed, and the
\* primary destination holds bytes it did not hold before the call.
C36_Witness ==
  /\ BatchReturned("install_bios_to_sd")
  /\ \E k \in DOMAIN result.log :
       LET entry == Files(result.required_only)[k] IN
       /\ result.log[k].o.kind = "copy_error"
       /\ result.log[k].o.done >= 1
       /\ sd[dest_path_for(entry)] # sd0[dest_path_for(entry)]
       /\ sd[dest_path_for(entry)] = cache[_cache_path_for(entry)]


\* C37: when download_all_bios has returned, scan_cached_bios on the cache
\* as it then is maps every filename in succeeded to true, and so does the
\* scan_cached_bios call made right after it; when install_bios_to_sd has
\* returned, the same holds of scan_sd_bios on the card, which resolves the
\* primary destination with the subdirectory as the install does.
C37_ScanAgreesWithBatch ==
  /\ BatchReturned("download_all_bios") =>
       \A k \in DOMAIN result.succeeded :
         scan_cached_bios[result.succeeded[k]]
  /\ BatchReturned("install_bios_to_sd") =>
       \A k \in DOMAIN result.succeeded : scan_sd_bios[result.succeeded[k]]
  /\ (result.op = "scan_cached_bios" /\ prev.op = "download_all_bios") =>
       \A k \in DOMAIN prev.succeeded : result.found[prev.succeeded[k]]
  /\ (result.op = "scan_sd_bios" /\ prev.op = "install_bios_to_sd") =>
       \A k \in DOMAIN prev.succeeded : result.found[prev.succeeded[k]]

\* C37 witness: an install has returned with an entry kept in a subdirectory
\* in succeeded and another entry not installed, and the scan of the card
\* tells them apart.
C37_Witness ==
  /\ BatchReturned("install_bios_to_sd")
  /\ \E k \in DOMAIN result.succeeded :
       /\ Catalog[CatalogIndex(result.succeeded[k])].subdir # ""
       /\ scan_sd_bios[result.succeeded[k]]
  /\ \E f \in Filenames : ~scan_sd_bios[f]

\* C37 witness for the cache: a scan_cached_bios call right after a batch
\* fetch that reported an entry kept in a subdirectory in succeeded.
C37_WitnessCache ==
  /\ result.op = "scan_cached_bios"
  /\ prev.op = "download_all_bios"
  /\ \E k \in DOMAIN prev.succeeded :
       Catalog[CatalogIndex(prev.succeeded[k])].subdir # ""


\* This install returned right after an install with the same required_only
\* returned, and neither met a filesystem error: no copy of this run failed,
\* and what the run before reports failed was not in the cache.
SecondInstall ==
  /\ BatchReturned("install_bios_to_sd")
  /\ prev.op = "install_bios_to_sd"
  /\ prev.required_only = result.required_only
  /\ \A k \in DOMAIN result.log : result.log[k].o.kind # "copy_error"
  /\ \A k \in DOMAIN prev.failed :
       ~cache0[_cache_path_for(Catalog[CatalogIndex(prev.failed[k])])].exists

\* C38: install_bios_to_sd run a second time with the same arguments, the
\* cache unchanged and no filesystem error, returns the (overall, succeeded,
\* failed) the first run returned and leaves every destination file as the
\* first run left it.
C38_InstallIdempotent ==
  SecondInstall =>
    /\ cache = cache0
    /\ result.overall = prev.overall
    /\ result.succeeded = prev.succeeded
    /\ result.failed
         = [k \in DOMAIN prev.failed |-> prev.failed[k] \o ": not in cache"]
    /\ sd = sd0

\* C38 witness: a second install that found files to copy and returned.
C38_Witness ==
  /\ SecondInstall
  /\ result.succeeded # <<>>
  /\ \E i \in 1..Len(Catalog) :
       /\ Catalog[i].filename \in Range(result.succeeded)
       /\ sd[dest_path_for(Catalog[i])] = cache[_cache_path_for(Catalog[i])]


\* ---------------------------------------- the BIOS tab of the window

\* The BIOS Manager tab of OnionInstaller.  result holds the window's
\* checkbox, call the worker threads the two button handlers have started,
\* each with its ProgressDialog and the idle callback that closes it.
WindowShown(bios_required_only) ==
  [op |-> "OnionInstaller", status |-> "shown",
   bios_required_only |-> bios_required_only]

\* What a handler leaves behind: the thread running the batch call, the
\* modal ProgressDialog it opened first, and nothing yet queued to close it.
Worker(op, required_only) ==
  [op |-> op, required_only |-> required_only, thread |-> "running",
   progress |-> "open", closing |-> "none"]

InitWindow ==
  /\ cache = [p \in CachePaths |-> NoFile]
  /\ sd = [p \in SdPaths |-> NoFile]
  /\ blocked = {}
  /\ pc = "idle"
  /\ call = <<>>
  /\ result = WindowShown(FALSE)
  /\ requests = <<>>
  /\ progress = <<>>
  /\ cache0 = cache
  /\ sd0 = sd
  /\ prev = NoResult
  /\ calls = 0
  /\ faults = 0

WindowFrame ==
  UNCHANGED <<cache, sd, blocked, pc, requests, progress, cache0, sd0, prev,
              faults>>

\* A modal dialog of the window is open (a ProgressDialog, or the message
\* dialog _show_message runs): the window's buttons take no input.
ModalDialogOpen ==
  \E i \in DOMAIN call :
    call[i].progress = "open" \/ call[i].closing = "message"

\* The "Required BIOS files only" checkbox is clicked.
ToggleRequiredOnly ==
  /\ ~ModalDialogOpen
  /\ result' = WindowShown(~result.bios_required_only)
  /\ UNCHANGED <<call, calls>>
  /\ WindowFrame

\* _on_bios_download: the ProgressDialog is opened, then the worker thread
\* is started; the handler returns to the main loop.
OnBiosDownload ==
  /\ ~ModalDialogOpen
  /\ calls < MaxCalls
  /\ calls' = calls + 1
  /\ call' = Append(call, Worker("download_all_bios",
                                 result.bios_required_only))
  /\ UNCHANGED result
  /\ WindowFrame

\* _on_bios_install: returns early when the cache is empty or no drive was
\* chosen and mounted; else as _on_bios_download.
OnBiosInstall(ready) ==
  /\ ~ModalDialogOpen
  /\ calls < MaxCalls
  /\ calls' = calls + 1
  /\ call' = IF ready
               THEN Append(call, Worker("install_bios_to_sd",
                                        result.bios_required_only))
               ELSE call
  /\ UNCHANGED result
  /\ WindowFrame

\* worker(): the batch call returns or raises, and the thread queues
\* _show_success_and_close_progress or _show_error_and_close_progress with
\* GLib.idle_add.
WorkerEnds(i, raised) ==
  /\ i \in DOMAIN call
  /\ call[i].thread = "running"
  /\ call' = [call EXCEPT ![i].thread = IF raised THEN "raised"
                                                  ELSE "returned",
                          ![i].closing = "queued"]
  /\ UNCHANGED <<result, calls>>
  /\ WindowFrame

\* The main loop runs the queued callback: progress.destroy(), then the
\* message dialog is shown.
CloseProgress(i) ==
  /\ i \in DOMAIN call
  /\ call[i].closing = "queued"
  /\ call' = [call EXCEPT ![i].progress = "closed", ![i].closing = "message"]
  /\ UNCHANGED <<result, calls>>
  /\ WindowFrame

\* The user answers the message dialog: dialog.run() returns.
DismissMessage(i) ==
  /\ i \in DOMAIN call
  /\ call[i].closing = "message"
  /\ call' = [call EXCEPT ![i].closing = "done"]
  /\ UNCHANGED <<result, calls>>
  /\ WindowFrame

\* The user presses Escape on the ProgressDialog.  A Gtk.Dialog binds the
\* key to its close signal, and the class connects no handler that stops
\* the dialog from being destroyed (set_deletable(False) only takes the
\* close button off the title bar).
EscapeOnProgress(i) ==
  /\ i \in DOMAIN call
  /\ call[i].progress = "open"
  /\ \A j \in DOMAIN call : call[j].closing # "message"
  /\ call' = [call EXCEPT ![i].progress = "closed"]
  /\ UNCHANGED <<result, calls>>
  /\ WindowFrame

NextWindow ==
  \/ ToggleRequiredOnly
  \/ OnBiosDownload
  \/ \E ready \in BOOLEAN : OnBiosInstall(ready)
  \/ \E i \in 1..MaxCalls, raised \in BOOLEAN : WorkerEnds(i, raised)
  \/ \E i \in 1..MaxCalls : CloseProgress(i)
  \/ \E i \in 1..MaxCalls : DismissMessage(i)
  \/ \E i \in 1..MaxCalls : EscapeOnProgress(i)

SpecWindow == InitWindow /\ [][NextWindow]_vars

\* C39: the window serializes the BIOS batch calls: a worker's progress
\* dialog is closed only after its batch call has ended, so at most one
\* batch call is running at any time.
C39_OneBatchAtATime ==
  /\ \A i \in DOMAIN call :
       call[i].progress = "closed" => call[i].thread # "running"
  /\ Cardinality({i \in DOMAIN call : call[i].thread = "running"}) <= 1

====
